---------------------------- MODULE Spec2Model ----------------------------
(***************************************************************************)
(* A model of the comment harvesting pipeline of the repository:          *)
(*   - SearchCache (TTL + size bounded memo of processed results),         *)
(*   - getRedditAccessToken (credential manager with retry counter),       *)
(*   - redditApiRequest (rate-limit aware client, at most 3 attempts),     *)
(*   - extractComments (depth-capped walk of a reply tree),                *)
(*   - searchComments (the harvesting orchestrator) and                    *)
(*     processCommentsWithSearchTerms (filter, score, sort, dedup).        *)
(*                                                                         *)
(* The program is single threaded and cooperative: a step of the model is  *)
(* one event handler of the event loop (the arrival of an HTTP response,   *)
(* the firing of a timer, a call from outside) run to its next suspension  *)
(* point.  The environment (the token endpoint, the content API, the       *)
(* clock) is nondeterministic.                                             *)
(*                                                                         *)
(* Text is modelled by TLC strings; Date.now() by the variable now (ms).   *)
(***************************************************************************)
EXTENDS Integers, Sequences, FiniteSets, TLC

VARIABLES
  now,              \* Date.now(), in milliseconds
  cache,            \* SearchCache.cache: Map in insertion order, as a sequence
  cacheObs,         \* observation of the last cache operation (op, key, result)
  cacheHist,        \* per key: the last set(k, v) and whether it is still live
  accessToken,      \* module-level accessToken (Null when absent)
  tokenExpiration,  \* module-level tokenExpiration
  tokenRetryCount,  \* module-level tokenRetryCount
  tokenHist,        \* history of the token exchanges (failures, last success)
  api,              \* per task: the redditApiRequest call it is running
  exIn,             \* extractComments: the arguments of the call
  exOut,            \* extractComments: whether it returned, and what
  search,           \* searchComments: the search in progress, the last result
  searchHist,       \* searchComments: the last cache write of a search
  runs,             \* searchComments: two calls that may overlap
  rankIn,           \* ranking and scoring: the arguments of the call
  rankOut           \* ranking and scoring: whether it returned, and what

cacheVars == <<cache, cacheObs, cacheHist>>
tokenVars == <<accessToken, tokenExpiration, tokenRetryCount>>
vars == <<now, cache, cacheObs, cacheHist, accessToken, tokenExpiration,
          tokenRetryCount, tokenHist, api, exIn, exOut,
          search, searchHist, runs, rankIn, rankOut>>
exVars == <<exIn, exOut>>
searchVars == <<search, searchHist, runs>>
rankVars == <<rankIn, rankOut>>

\* JavaScript null for a string-valued variable.
Null == "null"

(***************************************************************************)
(* Bounds of the model.                                                    *)
(***************************************************************************)
\* new SearchCache(maxSize, ttlMs): the instance that is model checked.
maxSize == 2
ttl == 2
\* The clock of the cache specification runs from 0 to MaxNow in 1 ms ticks.
MaxNow == 4

Max(a, b) == IF a >= b THEN a ELSE b
Min(a, b) == IF a <= b THEN a ELSE b

(***************************************************************************)
(* SearchCache                                                             *)
(***************************************************************************)
\* The keys of a Map, in order.
CacheKeysOf(c) == {c[i].key : i \in 1..Len(c)}

\* Map.get: the index of the entry of key k, 0 when there is none.
CacheIndex(c, k) ==
  IF \E i \in 1..Len(c) : c[i].key = k
    THEN CHOOSE i \in 1..Len(c) : c[i].key = k
    ELSE 0

\* Map.delete(k): the other entries keep their order.
CacheDelete(c, k) ==
  LET keep == {i \in 1..Len(c) : c[i].key # k}
      RECURSIVE Build(_)
      Build(i) == IF i > Len(c) THEN <<>>
                  ELSE (IF i \in keep THEN <<c[i]>> ELSE <<>>) \o Build(i + 1)
  IN Build(1)

\* Map.set(k, e): an existing key keeps its place, a new key goes last.
CachePut(c, e) ==
  LET i == CacheIndex(c, e.key)
  IN IF i = 0 THEN Append(c, e) ELSE [c EXCEPT ![i] = e]

\* get(key) at time t: the returned value and the cache afterwards.  An entry
\* older than ttl is deleted and null returned.
SearchCache_get_Expired_GE(e, t) == t - e.timestamp >= ttl

SearchCache_get_Expired(e, t) == t - e.timestamp > ttl

\* A hit renews the timestamp of the entry
SearchCache_get_Touch(c, k, t) ==
  LET i == CacheIndex(c, k)
  IN IF i = 0
       THEN [cache |-> c, isNull |-> TRUE, results |-> <<>>]
       ELSE IF SearchCache_get_Expired(c[i], t)
              THEN [cache |-> CacheDelete(c, k), isNull |-> TRUE, results |-> <<>>]
              ELSE [cache |-> [c EXCEPT ![i].timestamp = t], isNull |-> FALSE,
                    results |-> c[i].results]

SearchCache_get(c, k, t) ==
  LET i == CacheIndex(c, k)
  IN IF i = 0
       THEN [cache |-> c, isNull |-> TRUE, results |-> <<>>]
       ELSE IF SearchCache_get_Expired(c[i], t)
              THEN [cache |-> CacheDelete(c, k), isNull |-> TRUE, results |-> <<>>]
              ELSE [cache |-> c, isNull |-> FALSE, results |-> c[i].results]

\* Array.from(entries).sort((a, b) => a[1].timestamp - b[1].timestamp)[0][0]:
\* the sort is stable, so the first entry, in Map order, of least timestamp.
OldestKey(c) ==
  LET i == CHOOSE j \in 1..Len(c) :
             /\ \A m \in 1..Len(c) : c[j].timestamp <= c[m].timestamp
             /\ \A m \in 1..(j - 1) : c[m].timestamp > c[j].timestamp
  IN c[i].key

\* set(key, results) at time t.
SearchCache_set_NoEvict(c, k, results, t) ==
  CachePut(c, [key |-> k, timestamp |-> t, results |-> results])

SearchCache_set_EvictNewest(c, k, results, t) ==
  LET newest == c[CHOOSE j \in 1..Len(c) :
                    \A m \in 1..Len(c) : c[j].timestamp >= c[m].timestamp].key
      trimmed == IF Len(c) >= maxSize THEN CacheDelete(c, newest) ELSE c
  IN CachePut(trimmed, [key |-> k, timestamp |-> t, results |-> results])

SearchCache_set(c, k, results, t) ==
  LET trimmed == IF Len(c) >= maxSize THEN CacheDelete(c, OldestKey(c)) ELSE c
  IN CachePut(trimmed, [key |-> k, timestamp |-> t, results |-> results])

\* clear()
SearchCache_clear(c) == <<>>

\* size()
SearchCache_size(c) == Len(c)


(***************************************************************************)
(* Initial values of the records of the state.                             *)
(***************************************************************************)
NoObs == [op |-> "none", key |-> "", isNull |-> TRUE, results |-> <<>>,
          atCapacity |-> FALSE]
\* has: set(WatchedKey, v) happened at time T; live: that entry has not been
\* overwritten, evicted by a set or cleared since; hitBefore, missAfter: a get
\* at T + ttl - 1 returned it, a get at T + ttl + 1 returned null.
NoHist == [has |-> FALSE, T |-> 0, v |-> <<>>, live |-> FALSE,
           hitBefore |-> FALSE, missAfter |-> FALSE]


\* tokenHist: epFails failed exchanges since the last success or terminal
\* failure; termLen the number of failed exchanges of the last episode that
\* ended terminally (0: none yet); okT, okE, okTok the time, expires_in and
\* token of the last successful exchange; no401: no 401 has cleared the
\* token since, and no exchange has failed at or after its expiry (okT, okE
\* and okTok are forgotten when one does); intact: neither a 401 nor a
\* failed exchange has cleared it since; reused: a call made later than okT
\* was served the stored token.
NoTokenHist == [epFails |-> 0, termLen |-> 0, okT |-> 0, okE |-> 0,
                okTok |-> Null, no401 |-> FALSE, intact |-> FALSE,
                reused |-> FALSE]

NoTree == [nodes |-> <<>>, roots |-> <<>>]
NoExtractIn == [data |-> NoTree, subreddit |-> "", postId |-> ""]
NoExtractOut == [done |-> FALSE, threw |-> FALSE, comments |-> <<>>]
NoRankIn == [op |-> "none"]
NoRankOut == [done |-> FALSE]

IdleCall == [pc |-> "idle", attempt |-> 1, gets |-> 0, wait |-> 0,
             bearer |-> Null, err |-> "", url |-> "", data |-> <<>>]

(***************************************************************************)
(* getRedditAccessToken and redditApiRequest                               *)
(*                                                                         *)
(* api[t] is the top-level redditApiRequest(url) call that task t runs:    *)
(*   pc       "idle"      no call                                          *)
(*            "backoff"   getRedditAccessToken sleeps backoffTime ms       *)
(*            "exchange"  the token POST is in flight                      *)
(*            "get"       the API GET is in flight                         *)
(*            "delay429"  the client sleeps after a 429                    *)
(*            "ok", "err" the call has settled, its caller has not resumed *)
(*   attempt  the attempt parameter of the current recursive call          *)
(*   gets     the GETs issued so far by this top-level call                *)
(*   wait     the duration of the sleep in progress (ms)                   *)
(*   bearer   the token of the Authorization header of the GET in flight   *)
(*   err      the error the call failed with                               *)
(*   url, data  what is requested, and the JSON of a successful response   *)
(***************************************************************************)
maxAttempts == 3

\* accessToken && Date.now() < tokenExpiration

TokenValid(tok, exp, t) == tok # Null /\ t < exp

RECURSIVE Pow2(_)
Pow2(n) == IF n = 0 THEN 1 ELSE 2 * Pow2(n - 1)

\* A backoff that starts at 1000 ms
backoffTime_FromOneSecond(cnt) == IF cnt = 0 THEN 0 ELSE Min(1000 * Pow2(cnt - 1), 30000)

\* tokenRetryCount === 0 ? 0 : Math.min(1000 * Math.pow(2, tokenRetryCount), 30000)
backoffTime(cnt) == IF cnt = 0 THEN 0 ELSE Min(1000 * Pow2(cnt), 30000)

\* Date.now() + response.data.expires_in * 1000 - 60000
ExpirationOf_NoMargin(t, expiresIn) == t + expiresIn * 1000

ExpirationOf(t, expiresIn) == t + expiresIn * 1000 - 60000

\* tokenRetryCount > 3, after the increment
TooManyRetries_GT2(cnt) == cnt > 2

TooManyRetries_GT4(cnt) == cnt > 4

TooManyRetries(cnt) == cnt > 3

\* attempt < maxAttempts
AttemptsRemain_LE(attempt) == attempt <= maxAttempts

AttemptsRemain(attempt) == attempt < maxAttempts

\* The synchronous start of redditApiRequest(url, attempt) with the token
\* state (tok, exp, cnt) at time t: getRedditAccessToken returns the stored
\* token and the GET is issued, or it sleeps the backoff, or it issues the
\* token POST at once.
redditApiRequest_start(r, attempt, tok, exp, cnt, t) ==
  IF TokenValid(tok, exp, t)
    THEN [r EXCEPT !.pc = "get", !.attempt = attempt, !.gets = @ + 1,
                   !.bearer = tok]
    ELSE IF backoffTime(cnt) > 0
      THEN [r EXCEPT !.pc = "backoff", !.attempt = attempt,
                     !.wait = backoffTime(cnt)]
      ELSE [r EXCEPT !.pc = "exchange", !.attempt = attempt]

\* History: the call just started was served the stored token, later than
\* the exchange that stored it.
HistAfterStart(r) ==
  IF r.pc = "get" /\ tokenHist.intact /\ now > tokenHist.okT
    THEN [tokenHist EXCEPT !.reused = TRUE]
    ELSE tokenHist

\* History: a transient failure has cleared the token.  The token of the
\* last successful exchange stays on record while its expiry is ahead; at
\* or after the expiry every later call finds no valid token either way.
HistAfterFail ==
  IF tokenHist.no401 /\ now < ExpirationOf(tokenHist.okT, tokenHist.okE)
    THEN [tokenHist EXCEPT !.epFails = tokenHist.epFails + 1,
                           !.intact = FALSE, !.reused = FALSE]
    ELSE [NoTokenHist EXCEPT !.epFails = tokenHist.epFails + 1,
                             !.termLen = tokenHist.termLen]

Settled(t) == api[t].pc \in {"ok", "err"}
Pending(t) == api[t].pc \in {"backoff", "exchange", "get", "delay429"}

\* An event of the event loop is handled only when the handler of the
\* previous one has run to its suspension points: no settled call is waiting
\* for its caller to resume.
Quiescent == \A t \in DOMAIN api : ~Settled(t)

\* The backoff timer of getRedditAccessToken fires: the token POST is issued.
BackoffDone(t) ==
  /\ Quiescent
  /\ api[t].pc = "backoff"
  /\ api' = [api EXCEPT ![t].pc = "exchange", ![t].wait = 0]
  /\ UNCHANGED <<now, cacheVars, tokenVars, tokenHist, exVars, searchVars, rankVars>>

\* The token POST succeeds with (access_token, expires_in): the token is
\* stored and returned, and redditApiRequest issues its GET with it.
ExchangeOk(t, tok, expiresIn) ==
  /\ Quiescent
  /\ api[t].pc = "exchange"
  /\ accessToken' = tok
  /\ tokenExpiration' = ExpirationOf(now, expiresIn)
  /\ tokenRetryCount' = 0
  /\ tokenHist' = [tokenHist EXCEPT !.epFails = 0, !.okT = now, !.okE = expiresIn,
                                    !.okTok = tok, !.no401 = TRUE,
                                    !.intact = TRUE, !.reused = FALSE]
  /\ api' = [api EXCEPT ![t].pc = "get", ![t].gets = @ + 1, ![t].bearer = tok]
  /\ UNCHANGED <<now, cacheVars, exVars, searchVars, rankVars>>

\* A failed exchange that leaves the stored token in place
ExchangeFail_KeepsToken(t) ==
  /\ Quiescent
  /\ api[t].pc = "exchange"
  /\ IF TooManyRetries(tokenRetryCount + 1)
       THEN /\ tokenRetryCount' = 0
            /\ tokenHist' = [tokenHist EXCEPT !.epFails = 0,
                                              !.termLen = tokenHist.epFails + 1]
            /\ api' = [api EXCEPT ![t].pc = "err", ![t].err = "auth_terminal"]
       ELSE /\ tokenRetryCount' = tokenRetryCount + 1
            /\ tokenHist' = [tokenHist EXCEPT !.epFails = tokenHist.epFails + 1]
            /\ api' = [api EXCEPT ![t].pc = "err", ![t].err = "auth_transient"]
  /\ UNCHANGED <<now, cacheVars, accessToken, tokenExpiration, exVars, searchVars, rankVars>>

\* The token POST fails (status, timeout, network): the counter is
\* incremented; beyond 3 it is reset and the terminal error thrown, otherwise
\* the token is cleared and the transient error thrown.  redditApiRequest
\* rethrows either (it is no axios error with a response).
ExchangeFail(t) ==
  /\ Quiescent
  /\ api[t].pc = "exchange"
  /\ IF TooManyRetries(tokenRetryCount + 1)
       THEN /\ tokenRetryCount' = 0
            /\ UNCHANGED <<accessToken, tokenExpiration>>
            /\ tokenHist' = [tokenHist EXCEPT !.epFails = 0,
                                              !.termLen = tokenHist.epFails + 1]
            /\ api' = [api EXCEPT ![t].pc = "err", ![t].err = "auth_terminal"]
       ELSE /\ tokenRetryCount' = tokenRetryCount + 1
            /\ accessToken' = Null
            /\ tokenExpiration' = 0
            /\ tokenHist' = HistAfterFail
            /\ api' = [api EXCEPT ![t].pc = "err", ![t].err = "auth_transient"]
  /\ UNCHANGED <<now, cacheVars, exVars, searchVars, rankVars>>

\* The GET succeeds: response.data is returned.
GetOk(t, data) ==
  /\ Quiescent
  /\ api[t].pc = "get"
  /\ api' = [api EXCEPT ![t].pc = "ok", ![t].data = data, ![t].bearer = Null]
  /\ UNCHANGED <<now, cacheVars, tokenVars, tokenHist, exVars, searchVars, rankVars>>

\* A delay after a 429 that grows by 1000 ms per attempt
Get429_Linear(t) ==
  /\ Quiescent
  /\ api[t].pc = "get"
  /\ api' = IF AttemptsRemain(api[t].attempt)
              THEN [api EXCEPT ![t].pc = "delay429", ![t].bearer = Null,
                               ![t].wait = api[t].attempt * 1000]
              ELSE [api EXCEPT ![t].pc = "err", ![t].err = "rate_limited",
                               ![t].bearer = Null]
  /\ UNCHANGED <<now, cacheVars, tokenVars, tokenHist, exVars, searchVars, rankVars>>

\* The GET is answered 429: sleep 2^attempt * 1000 ms and retry if attempts
\* remain, else throw the rate-limited error.
Get429(t) ==
  /\ Quiescent
  /\ api[t].pc = "get"
  /\ api' = IF AttemptsRemain(api[t].attempt)
              THEN [api EXCEPT ![t].pc = "delay429", ![t].bearer = Null,
                               ![t].wait = Pow2(api[t].attempt) * 1000]
              ELSE [api EXCEPT ![t].pc = "err", ![t].err = "rate_limited",
                               ![t].bearer = Null]
  /\ UNCHANGED <<now, cacheVars, tokenVars, tokenHist, exVars, searchVars, rankVars>>

\* The 429 delay is over: redditApiRequest(url, attempt + 1).
Delay429Done(t) ==
  /\ Quiescent
  /\ api[t].pc = "delay429"
  /\ api' = [api EXCEPT ![t] = redditApiRequest_start([api[t] EXCEPT !.wait = 0],
                                 api[t].attempt + 1,
                                 accessToken, tokenExpiration, tokenRetryCount, now)]
  /\ tokenHist' = HistAfterStart(api'[t])
  /\ UNCHANGED <<now, cacheVars, tokenVars, exVars, searchVars, rankVars>>

\* A 401 that clears the credential only when the request is retried
Get401_ClearsOnRetryOnly(t) ==
  /\ Quiescent
  /\ api[t].pc = "get"
  /\ accessToken' = IF AttemptsRemain(api[t].attempt) THEN Null ELSE accessToken
  /\ tokenExpiration' = IF AttemptsRemain(api[t].attempt) THEN 0 ELSE tokenExpiration
  /\ tokenHist' = IF AttemptsRemain(api[t].attempt)
                    THEN [NoTokenHist EXCEPT !.epFails = tokenHist.epFails,
                                             !.termLen = tokenHist.termLen]
                    ELSE tokenHist
  /\ api' = IF AttemptsRemain(api[t].attempt)
              THEN [api EXCEPT ![t] = redditApiRequest_start(
                                        [api[t] EXCEPT !.bearer = Null],
                                        api[t].attempt + 1, Null, 0, tokenRetryCount, now)]
              ELSE [api EXCEPT ![t].pc = "err", ![t].err = "http_401", ![t].bearer = Null]
  /\ UNCHANGED <<now, cacheVars, tokenRetryCount, exVars, searchVars, rankVars>>

\* The GET is answered 401: the stored credential is cleared; retry at once
\* with attempt + 1 if attempts remain, else rethrow.
Get401(t) ==
  /\ Quiescent
  /\ api[t].pc = "get"
  /\ accessToken' = Null
  /\ tokenExpiration' = 0
  /\ tokenHist' = [NoTokenHist EXCEPT !.epFails = tokenHist.epFails,
                                      !.termLen = tokenHist.termLen]
  /\ api' = IF AttemptsRemain(api[t].attempt)
              THEN [api EXCEPT ![t] = redditApiRequest_start(
                                        [api[t] EXCEPT !.bearer = Null],
                                        api[t].attempt + 1, Null, 0, tokenRetryCount, now)]
              ELSE [api EXCEPT ![t].pc = "err", ![t].err = "http_401", ![t].bearer = Null]
  /\ UNCHANGED <<now, cacheVars, tokenRetryCount, exVars, searchVars, rankVars>>

\* A failure that is retried while attempts remain
GetFail_Retries(t, kind) ==
  /\ Quiescent
  /\ api[t].pc = "get"
  /\ api' = IF AttemptsRemain(api[t].attempt)
              THEN [api EXCEPT ![t] = redditApiRequest_start(
                                        [api[t] EXCEPT !.bearer = Null],
                                        api[t].attempt + 1, accessToken,
                                        tokenExpiration, tokenRetryCount, now)]
              ELSE [api EXCEPT ![t].pc = "err", ![t].err = kind, ![t].bearer = Null]
  /\ UNCHANGED <<now, cacheVars, tokenVars, tokenHist, exVars, searchVars, rankVars>>

\* The GET fails otherwise: another status ("http_other"), or no response at
\* all, a timeout or a network error ("network").  The error is rethrown.
GetFail(t, kind) ==
  /\ Quiescent
  /\ api[t].pc = "get"
  /\ api' = [api EXCEPT ![t].pc = "err", ![t].err = kind, ![t].bearer = Null]
  /\ UNCHANGED <<now, cacheVars, tokenVars, tokenHist, exVars, searchVars, rankVars>>

(***************************************************************************)
(* extractComments                                                         *)
(*                                                                         *)
(* The reply tree of a post is a table of nodes, nodes, and the sequence   *)
(* roots of the indices of its top-level nodes.  A node is a record: kind  *)
(* ("t1" for a comment), hasData (item.data is present) and, of item.data, *)
(* id, author, body, ups, created_utc, total_awards_received and replies,  *)
(* the indices of item.data.replies.data.children in order (empty when     *)
(* there are none).  A missing author or body is the empty string; a       *)
(* missing ups or total_awards_received is 0, as || 0 makes it.  hasCreated *)
(* tells whether created_utc is there: without it created_utc * 1000 is    *)
(* NaN, and toISOString throws a RangeError on the date made of it.        *)
(*                                                                         *)
(* A comment is a record id, author, body, subreddit, upvotes, timestamp,  *)
(* awards, matchScore, score.  timestamp is the instant, in ms, that the   *)
(* ISO string denotes; matchScore and score are 0 until scoring sets them. *)
(* permalink and sentiment are labels that no operation reads: they are    *)
(* left out.                                                               *)
(***************************************************************************)
DepthCap == 10

Node(kind, id, author, body, ups, created, awards, replies) ==
  [kind |-> kind, hasData |-> TRUE, id |-> id, author |-> author, body |-> body,
   ups |-> ups, hasCreated |-> TRUE, created_utc |-> created, awards |-> awards,
   replies |-> replies]

\* The node without its created_utc.
NoCreated(item) == [item EXCEPT !.hasCreated = FALSE]

\* new Date(created_utc * 1000).toISOString(), as the instant it denotes.
ToTimestamp(created_utc) == created_utc * 1000

\* new Date(NaN): the date of a created_utc that is undefined has no time
\* value.
InvalidTime(item) == ~item.hasCreated

\* What stands for the comment when toISOString throws "RangeError: Invalid
\* time value".
RangeError == [threw |-> "RangeError"]

\* x || d for a string
OrElse(x, d) == IF x = "" THEN d ELSE x

\* The number 0, as the scores are kept: see Scoring.
Zero == <<0, 0, 0>>

\* The comment built from a node, or the error thrown in building it.
CommentOf(item, subreddit) ==
  IF InvalidTime(item) THEN RangeError
  ELSE [id |-> item.id,
        author |-> OrElse(item.author, "[deleted]"),
        body |-> item.body,
        subreddit |-> subreddit,
        upvotes |-> item.ups,
        timestamp |-> ToTimestamp(item.created_utc),
        awards |-> item.awards,
        matchScore |-> 0,
        score |-> Zero]

\* The building of one of the comments has thrown.
Threw(built) == \E i \in 1..Len(built) : "threw" \in DOMAIN built[i]

\* item.kind === 't1' && item.data
IsCommentNode(item) == item.kind = "t1" /\ item.hasData

\* The two continue statements: a deleted or removed comment is skipped,
\* and its replies with it.
IsSkipped(item) ==
  \/ item.body = "[deleted]"
  \/ item.body = "[removed]"
  \/ item.author = "[deleted]"

\* !data || depth > 10
TooDeep_GT11(depth) == depth > DepthCap + 1

TooDeep(depth) == depth > DepthCap

\* The replies of a skipped comment are walked as well
RECURSIVE processComments_WalksSkipped(_, _, _, _)
processComments_WalksSkipped(nodes, data, depth, subreddit) ==
  IF TooDeep(depth) THEN <<>>
  ELSE
    LET RECURSIVE Items(_)
        Items(i) ==
          IF i > Len(data) THEN <<>>
          ELSE
            LET item == nodes[data[i]]
                own == IF IsCommentNode(item) /\ ~IsSkipped(item)
                         THEN <<CommentOf(item, subreddit)>>
                         ELSE <<>>
                below == IF item.hasData
                           THEN processComments_WalksSkipped(nodes, item.replies,
                                                             depth + 1, subreddit)
                           ELSE <<>>
            IN own \o below \o Items(i + 1)
    IN Items(1)

\* processComments(data, depth): the comments pushed, in order.  data is
\* the sequence of the indices of the children walked.  A comment whose
\* building throws ends the walk: the error stands in its place, and what
\* comes after it is of no account.
RECURSIVE processComments(_, _, _, _)
processComments(nodes, data, depth, subreddit) ==
  IF TooDeep(depth) THEN <<>>
  ELSE
    LET RECURSIVE Items(_)
        Items(i) ==
          IF i > Len(data) THEN <<>>
          ELSE
            LET item == nodes[data[i]]
                own == IF IsCommentNode(item) /\ ~IsSkipped(item)
                         THEN <<CommentOf(item, subreddit)>>
                         ELSE <<>>
                below == IF IsCommentNode(item) /\ IsSkipped(item) THEN <<>>
                         ELSE IF item.hasData
                           THEN processComments(nodes, item.replies, depth + 1, subreddit)
                           ELSE <<>>
            IN own \o below \o Items(i + 1)
    IN Items(1)

\* extractComments returns the comments pushed, or throws what the building
\* of a comment threw.
extractComments(commentData, subreddit, postId) ==
  CHOOSE r \in
    {[threw |-> Threw(built), comments |-> IF Threw(built) THEN <<>> ELSE built] :
       built \in {processComments(commentData.nodes, commentData.roots, 0,
                                  subreddit)}} : TRUE

\* Lines 201-204 of fetchCommentsFromPost: what extractComments throws is
\* caught and logged, and no comment is returned.
OrNone(extracted) == IF extracted.threw THEN <<>> ELSE extracted.comments

(***************************************************************************)
(* Strings.  A string is a TLA+ string; its characters are read with       *)
(* SubSeq.  Letters are the ASCII letters, white space is the space.       *)
(***************************************************************************)
UpperChars == "ABCDEFGHIJKLMNOPQRSTUVWXYZ"
LowerChars == "abcdefghijklmnopqrstuvwxyz"

CharAt(s, i) == SubSeq(s, i, i)

LowerChar(c) ==
  LET hits == {i \in 1..Len(UpperChars) : CharAt(UpperChars, i) = c}
  IN IF hits = {} THEN c ELSE CharAt(LowerChars, CHOOSE i \in hits : TRUE)

\* String.prototype.toLowerCase
toLowerCase(s) ==
  LET RECURSIVE Lower(_)
      Lower(i) == IF i > Len(s) THEN ""
                  ELSE LowerChar(CharAt(s, i)) \o Lower(i + 1)
  IN Lower(1)

\* String.prototype.trim
trim(s) ==
  LET kept == {i \in 1..Len(s) : CharAt(s, i) # " "}
      first == CHOOSE i \in kept : \A j \in kept : i <= j
      last == CHOOSE i \in kept : \A j \in kept : i >= j
  IN IF kept = {} THEN "" ELSE SubSeq(s, first, last)

\* s.split(/\s+/).filter(term => term.length > 0), word being the letters
\* read since the last space
SplitWords(s, word) ==
  LET \* the words of s from its character i on: a word starts at i
      RECURSIVE From(_)
      From(i) ==
        IF i > Len(s) THEN <<>>
        ELSE IF CharAt(s, i) = " " THEN From(i + 1)
        ELSE LET spaces == {j \in i..Len(s) : CharAt(s, j) = " "}
                 end == IF spaces = {} THEN Len(s) + 1
                        ELSE CHOOSE j \in spaces : \A k \in spaces : j <= k
             IN <<SubSeq(s, i, end - 1)>> \o From(end)
      all == From(1)
  IN IF word = "" THEN all
     ELSE IF s = "" \/ CharAt(s, 1) = " " THEN <<word>> \o all
     ELSE <<word \o Head(all)>> \o Tail(all)

\* s.indexOf(sub, from), positions counted from 0; -1 when there is none.
IndexOfFrom(s, sub, from) ==
  LET at == {i \in from..(Len(s) - Len(sub)) : SubSeq(s, i + 1, i + Len(sub)) = sub}
  IN IF at = {} THEN -1 ELSE CHOOSE i \in at : \A j \in at : i <= j

\* s.includes(sub)
Includes(s, sub) == IndexOfFrom(s, sub, 0) >= 0

\* text.match(re) for re = new RegExp(escapeRegex(term), 'gi'): the number
\* of matches, found from left to right without overlap.  The term is
\* matched literally and without regard to case.
RECURSIVE CountFrom(_, _, _)
CountFrom(text, term, from) ==
  LET i == IndexOfFrom(text, term, from)
  IN IF i < 0 THEN 0 ELSE 1 + CountFrom(text, term, i + Len(term))

\* The matches of a regex that regards the case
MatchCount_CaseSensitive(text, term) == CountFrom(text, term, 0)

MatchCount(text, term) == CountFrom(toLowerCase(text), toLowerCase(term), 0)

\* re.test(text) of the same global regex with its lastIndex: the search
\* starts at lastIndex; a match leaves lastIndex behind it, a failure
\* resets it to 0.  RegexResult is the outcome for the match position i.
RegexResult(i, term) ==
  IF i < 0 THEN [found |-> FALSE, lastIndex |-> 0]
  ELSE [found |-> TRUE, lastIndex |-> i + Len(term)]

RegexTest(text, term, lastIndex) ==
  RegexResult(IF lastIndex > Len(text) THEN -1
              ELSE IndexOfFrom(toLowerCase(text), toLowerCase(term), lastIndex),
              term)

(***************************************************************************)
(* The request and the cache key                                           *)
(*                                                                         *)
(* A request is a record query, filterType, timeFrame, sortBy, minUpvotes, *)
(* limit; the page is passed beside it.                                    *)
(***************************************************************************)
\* getCacheKey without the lower-casing of the query
getCacheKey_NoLower(params, page) ==
  params.query \o "_" \o params.filterType \o "_" \o params.timeFrame
    \o "_" \o params.sortBy \o "_" \o ToString(params.minUpvotes)
    \o "_" \o ToString(params.limit) \o "_" \o ToString(page)

getCacheKey(params, page) ==
  toLowerCase(params.query) \o "_" \o params.filterType \o "_" \o params.timeFrame
    \o "_" \o params.sortBy \o "_" \o ToString(params.minUpvotes)
    \o "_" \o ToString(params.limit) \o "_" \o ToString(page)

(***************************************************************************)
(* Scoring.  A score is a JavaScript number, an IEEE 754 double, and is    *)
(* kept exactly: <<h, m, l>> stands for                                    *)
(* (h * Digit^2 + m * Digit + l) / 2^56, with three digits below Digit =   *)
(* 2^21.  A double has 53 significant bits; every sum and product is       *)
(* rounded to them, to the nearest and at a tie to the even one.          *)
(***************************************************************************)
Digit == 2097152

\* The number 1: 2^56 = 2^14 * Digit^2
One == <<16384, 0, 0>>

\* The digits h, m, l with the carries taken up.
Carry(h, m, l) ==
  <<h + (m + l \div Digit) \div Digit, (m + l \div Digit) % Digit, l % Digit>>

\* x < y and x <= y for numbers
Less(x, y) ==
  \/ x[1] < y[1]
  \/ x[1] = y[1] /\ x[2] < y[2]
  \/ x[1] = y[1] /\ x[2] = y[2] /\ x[3] < y[3]

AtMost(x, y) == ~Less(y, x)

\* The weight of the last of the 53 significant bits of a number whose
\* first digit is h: 1 below 2^53 = 2^11 * Digit^2, doubling with every
\* bit above.
UlpOf(h) ==
  IF h < 2048 THEN 1
  ELSE 2^(CHOOSE k \in 1..20 : h \div 2^k < 2048 /\ h \div 2^(k - 1) >= 2048)

\* The number x, of which bits below the last digit were dropped if sticky,
\* rounded to the multiple of ulp.
RoundTo(x, sticky, ulp) ==
  IF \/ 2 * (x[3] % ulp) > ulp
     \/ /\ 2 * (x[3] % ulp) = ulp
        /\ (sticky \/ (x[3] \div ulp) % 2 = 1)
    THEN Carry(x[1], x[2], x[3] - (x[3] % ulp) + ulp)
    ELSE <<x[1], x[2], x[3] - (x[3] % ulp)>>

Round(x, sticky) == RoundTo(x, sticky, UlpOf(x[1]))

\* x + y and x * k of doubles, k a small whole number
Plus(x, y) == Round(Carry(x[1] + y[1], x[2] + y[2], x[3] + y[3]), FALSE)

Times(x, k) == Round(Carry(x[1] * k, x[2] * k, x[3] * k), FALSE)

\* x - y exactly, for y <= x
Minus(x, y) == Carry(x[1] - y[1] - 1, x[2] - y[2] + Digit - 1, x[3] - y[3] + Digit)

\* The bits the quotient of whole part acc, below 2^52 = 2^10 * Digit^2,
\* takes on next: 8, or as many as make it one of 53 bits.
BitsFor(acc) ==
  IF acc[1] < 4 THEN 8
  ELSE CHOOSE k \in 1..8 : acc[1] * 2^k >= 1024 /\ acc[1] * 2^(k - 1) < 1024

\* The double nearest to (acc + r / den) / 2^e, as [n, e] for n / 2^e with
\* n of 53 bits: the first three of acc are the digits of the whole part so
\* far and e is its fourth, r < den is the remainder, and the quotient is
\* not 0.  Bits of the quotient are added until the whole part has 53 bits,
\* and the remainder then rounds the last.
RECURSIVE Quotient(_, _, _)
Quotient(acc, r, den) ==
  IF acc[1] >= 1024
    THEN [n |-> IF 2 * r > den \/ (2 * r = den /\ acc[3] % 2 = 1)
                  THEN Carry(acc[1], acc[2], acc[3] + 1)
                  ELSE <<acc[1], acc[2], acc[3]>>,
          e |-> acc[4]]
  ELSE Quotient(Append(Carry(2^BitsFor(acc) * acc[1], 2^BitsFor(acc) * acc[2],
                             2^BitsFor(acc) * acc[3] + (2^BitsFor(acc) * r) \div den),
                       acc[4] + BitsFor(acc)),
                (2^BitsFor(acc) * r) % den, den)

\* The whole part and the remainder of n / 3, digit by digit.
ThirdOf(n) ==
  <<n[1] \div 3,
    ((n[1] % 3) * Digit + n[2]) \div 3,
    ((((n[1] % 3) * Digit + n[2]) % 3) * Digit + n[3]) \div 3>>

ThirdRest(n) == ((((n[1] % 3) * Digit + n[2]) % 3) * Digit + n[3]) % 3

\* x * 2^k and x / 2^k without the bits below the last digit, for k <= 8
Doubled(x, k) == Carry(2^k * x[1], 2^k * x[2], 2^k * x[3])

Halved(x, k) ==
  <<x[1] \div 2^k,
    x[2] \div 2^k + (x[1] % 2^k) * (Digit \div 2^k),
    x[3] \div 2^k + (x[2] % 2^k) * (Digit \div 2^k)>>

Least(i, j) == IF i < j THEN i ELSE j

\* n / 2^e in the digits of a number, [x, sticky]: sticky if bits below
\* the last digit were dropped.
RECURSIVE InDigits(_, _, _)
InDigits(x, e, sticky) ==
  IF e = 56 THEN [x |-> x, sticky |-> sticky]
  ELSE IF e < 56
    THEN InDigits(Doubled(x, Least(8, 56 - e)), e + Least(8, 56 - e), sticky)
  ELSE InDigits(Halved(x, Least(8, e - 56)), e - Least(8, e - 56),
                sticky \/ x[3] % 2^Least(8, e - 56) # 0)

\* Math.log10(n) for n from 1 to 100
Log10Table == <<
    <<0, 0, 0>>, <<4932, 158227, 1959932>>, <<7817, 324297, 2054132>>, <<9864, 316455, 1822712>>,
    <<11451, 1938924, 137224>>, <<12749, 482525, 1916912>>, <<13846, 180958, 418296>>, <<14796, 474683, 1685488>>,
    <<15634, 648595, 2011112>>, <<16384, 0, 0>>, <<17062, 372776, 808672>>, <<17681, 640753, 1779696>>,
    <<18250, 1778142, 74992>>, <<18778, 339186, 281072>>, <<19269, 166070, 94208>>, <<19728, 632911, 1548272>>,
    <<20159, 1415845, 1562992>>, <<20566, 806823, 1873888>>, <<20951, 207613, 1839360>>, <<21316, 158227, 1959936>>,
    <<21663, 505256, 375280>>, <<21994, 531004, 671456>>, <<22310, 1151053, 2070512>>, <<22613, 798981, 1642464>>,
    <<22903, 1780696, 274448>>, <<23182, 1936369, 2034928>>, <<23451, 972893, 1968096>>, <<23710, 497414, 143856>>,
    <<23959, 1947829, 1457824>>, <<24201, 324297, 2054128>>, <<24434, 985644, 425568>>, <<24660, 791139, 1411056>>,
    <<24879, 697074, 765664>>, <<25091, 1574073, 1425776>>, <<25298, 22730, 555520>>, <<25498, 965051, 1736672>>,
    <<25693, 874611, 395264>>, <<25883, 365841, 1702144>>, <<26068, 5288, 31968>>, <<26248, 316455, 1822720>>,
    <<26423, 1784065, 50560>>, <<26595, 663484, 238064>>, <<26762, 1566942, 200544>>, <<26926, 689232, 534240>>,
    <<27086, 490368, 51184>>, <<27242, 1309281, 1933296>>, <<27395, 1365884, 764384>>, <<27545, 957209, 1505248>>,
    <<27692, 361916, 836592>>, <<27835, 1938924, 137216>>, <<27976, 1740143, 1519968>>, <<28114, 2094597, 1897696>>,
    <<28250, 1123753, 1549376>>, <<28383, 1131121, 1830880>>, <<28514, 214548, 945904>>, <<28642, 655642, 6640>>,
    <<28768, 531911, 1796352>>, <<28892, 8905, 1320608>>, <<29013, 1340832, 986848>>, <<29133, 482525, 1916912>>,
    <<29250, 1770031, 1163008>>, <<29366, 1143872, 288352>>, <<29480, 829554, 332256>>, <<29592, 949367, 1273824>>,
    <<29702, 1619914, 212208>>, <<29811, 855302, 628448>>, <<29918, 858925, 414432>>, <<30023, 1732301, 1288560>>,
    <<30127, 1475351, 2027488>>, <<30230, 180958, 418304>>, <<30331, 35201, 1180976>>, <<30430, 1123279, 1599456>>,
    <<30528, 1429712, 1787456>>, <<30625, 1032839, 258048>>, <<30721, 7842, 231424>>, <<30815, 524069, 1564928>>,
    <<30908, 553734, 1226976>>, <<31000, 163515, 1991904>>, <<31090, 1514696, 1611488>>, <<31180, 474683, 1685488>>,
    <<31268, 1297191, 1925072>>, <<31355, 1942292, 2010496>>, <<31442, 367977, 1682832>>, <<31527, 821712, 100832>>,
    <<31611, 1257617, 1700224>>, <<31694, 1725170, 63312>>, <<31777, 174975, 1414800>>, <<31858, 847460, 397024>>,
    <<31938, 1690029, 1075808>>, <<32018, 648595, 2011104>>, <<32096, 1959100, 493296>>, <<32174, 1467509, 1796064>>,
    <<32251, 1309942, 382560>>, <<32327, 1524112, 627152>>, <<32403, 49385, 1976592>>, <<32477, 1115437, 1368032>>,
    <<32551, 562234, 683232>>, <<32624, 520144, 699376>>, <<32696, 1021372, 722640>>, <<32768, 0, 0>>>>
Log10(n) == Log10Table[n]

MsPerDay == 86400000

Abs(i) == IF i < 0 THEN -i ELSE i

\* (now - commentDate) / (1000 * 60 * 60) for an age that is not 0, as
\* [n, e]: 3600000 = 28125 * 2^7.
ageInHours(age) ==
  Quotient(<<0, 0, Abs(age) \div 28125, 7>>, Abs(age) % 28125, 28125)

\* q / 24 for the double q = [n, e]: 24 = 3 * 2^3.
Over24(q) == Quotient(Append(ThirdOf(q.n), q.e + 3), ThirdRest(q.n), 3)

\* 1 - d for the quotient d = [x, sticky] of a past time, 1 + d for that of
\* a time to come.
OneLess(d) ==
  Round(IF d.sticky THEN Minus(Minus(One, d.x), <<0, 0, 1>>) ELSE Minus(One, d.x),
        d.sticky)

OneMore(d) == Round(Carry(One[1] + d.x[1], d.x[2], d.x[3]), d.sticky)

Share(q) == InDigits(q.n, q.e, FALSE)

\* 5 * x
FiveTimes(x) == Times(x, 5)

\* calculateRecencyScore: 5 * (1 - ageInHours / 24) if the comment is less
\* than 24 hours old at time t, else 0.  Each step is computed before the
\* next one takes it: h is ageInHours, q is h / 24, d is q in digits, w is
\* 1 - d.
calculateRecencyScore(timestamp, t) ==
  IF t - timestamp >= MsPerDay THEN Zero
  ELSE IF t = timestamp THEN FiveTimes(One)
  ELSE CHOOSE z \in
         {FiveTimes(w) : w \in
           {IF t > timestamp THEN OneLess(d) ELSE OneMore(d) : d \in
             {Share(q) : q \in
               {Over24(h) : h \in {ageInHours(t - timestamp)}}}}} : TRUE

\* The awards counted up to 9 only, and from 0 again beyond
calculateBaseScore_AwardsWrap(comment, t) ==
  CHOOSE z \in
    {Plus(Plus(upvoteScore, awardScore), recency) :
       upvoteScore \in {Times(Log10(comment.upvotes + 1), 2)},
       awardScore \in {Times(Log10((comment.awards % 10) + 1), 3)},
       recency \in {calculateRecencyScore(comment.timestamp, t)}} : TRUE

\* const upvoteScore, awardScore, recency; return their sum
calculateBaseScore(comment, t) ==
  CHOOSE z \in
    {Plus(Plus(upvoteScore, awardScore), recency) :
       upvoteScore \in {Times(Log10(comment.upvotes + 1), 2)},
       awardScore \in {Times(Log10(comment.awards + 1), 3)},
       recency \in {calculateRecencyScore(comment.timestamp, t)}} : TRUE

\* const baseScore, matchScore; return their sum
calculateScore(comment, matchCount, t) ==
  CHOOSE z \in
    {Plus(baseScore, matchScore) :
       baseScore \in {calculateBaseScore(comment, t)},
       matchScore \in {Times(Log10(matchCount + 1), 5)}} : TRUE

(***************************************************************************)
(* processCommentsWithSearchTerms                                          *)
(***************************************************************************)
\* seq.filter(Keep), for Keep given as the set of the indices kept
RECURSIVE FilterIdx(_, _, _)
FilterIdx(seq, keep, i) ==
  IF i > Len(seq) THEN <<>>
  ELSE (IF i \in keep THEN <<seq[i]>> ELSE <<>>) \o FilterIdx(seq, keep, i + 1)

\* A whole number as the key of a sort, among the numbers.
Whole(k) == <<k, 0, 0>>

\* Array.prototype.sort with the comparator (a, b) => key(b) - key(a): the
\* sort is stable, so the elements come out by decreasing key and, among
\* equal keys, in their order in seq.  keys[i] is the key of seq[i].
SortDescending(seq, keys) ==
  LET Before(i, j) == Less(keys[j], keys[i]) \/ (keys[i] = keys[j] /\ i < j)
      Rank(i) == Cardinality({j \in 1..Len(seq) : Before(j, i)}) + 1
  IN [r \in 1..Len(seq) |-> seq[CHOOSE i \in 1..Len(seq) : Rank(i) = r]]

\* filter((c, i, self) => i === self.findIndex(d => d.id === c.id))
RemoveDuplicates_Keep(seq) == seq

RemoveDuplicates(seq) ==
  FilterIdx(seq, {i \in 1..Len(seq) : \A j \in 1..(i - 1) : seq[j].id # seq[i].id}, 1)

\* The match count of keyword mode: the matches of every term in the body.
RECURSIVE KeywordMatchCount(_, _, _)
KeywordMatchCount(comment, searchTerms, k) ==
  IF k > Len(searchTerms) THEN 0
  ELSE MatchCount(comment.body, searchTerms[k])
         + KeywordMatchCount(comment, searchTerms, k + 1)

\* The bonus of a term in all mode: 2 if re.test finds it in the author, 3
\* if re.test then finds it in the subreddit.  The regex is global: the
\* second test starts where the first one, inAuthor, left lastIndex.
AuthorSubredditBonus(inAuthor, subredditText, term) ==
  (IF inAuthor.found THEN 2 ELSE 0)
    + (IF RegexTest(subredditText, term, inAuthor.lastIndex).found THEN 3 ELSE 0)

\* The match count of all mode: per term, the matches in the body and the
\* bonus.
RECURSIVE AllMatchCount(_, _, _)
AllMatchCount(comment, searchTerms, k) ==
  IF k > Len(searchTerms) THEN 0
  ELSE MatchCount(comment.body, searchTerms[k])
         + AuthorSubredditBonus(
             RegexTest(toLowerCase(comment.author), searchTerms[k], 0),
             toLowerCase(comment.subreddit), searchTerms[k])
         + AllMatchCount(comment, searchTerms, k + 1)

\* query.length > 3 && commentText.includes(query.toLowerCase())
exactPhraseBonus(comment, query) ==
  IF Len(query) > 3 /\ Includes(toLowerCase(comment.body), toLowerCase(query))
    THEN 10 ELSE 0

\* The filter of the minimum of upvotes left out
PassesMinUpvotes_Always(comment, minUpvotes) == TRUE

\* comment.upvotes >= minUpvotes
PassesMinUpvotes(comment, minUpvotes) == comment.upvotes >= minUpvotes

\* comments.filter(comment => comment.upvotes >= minUpvotes)
MinUpvotesFilter(comments, minUpvotes) ==
  FilterIdx(comments,
            {i \in 1..Len(comments) : PassesMinUpvotes(comments[i], minUpvotes)}, 1)

\* What a callback makes of a comment: whether it is kept, and the comment
\* as it is then.  Based: the kept comment gets its base score.  Matched:
\* the comment is kept if its match count n is positive, and gets n and its
\* score.
Based(comment, keep, t) ==
  [keep |-> keep,
   comment |-> IF keep THEN [comment EXCEPT !.score = calculateBaseScore(comment, t)]
               ELSE comment]

Matched(comment, n, t) ==
  [keep |-> n > 0,
   comment |-> IF n > 0
                 THEN [comment EXCEPT !.matchScore = n,
                                      !.score = calculateScore(comment, n, t)]
                 ELSE comment]

\* The callback of the filter type, at time t.
FilterCallback(comment, searchTerms, filterType, query, t) ==
  IF Len(searchTerms) = 0 /\ filterType = "all"
    THEN Based(comment, TRUE, t)
  ELSE IF filterType = "keyword"
    THEN Matched(comment, KeywordMatchCount(comment, searchTerms, 1), t)
  ELSE IF filterType = "subreddit"
    THEN Based(comment, toLowerCase(comment.subreddit) = toLowerCase(query), t)
  ELSE IF filterType = "author"
    THEN Based(comment, Includes(toLowerCase(comment.author), toLowerCase(query)), t)
  ELSE IF Len(searchTerms) = 0
    THEN [keep |-> TRUE, comment |-> comment]
  ELSE Matched(comment,
               AllMatchCount(comment, searchTerms, 1) + exactPhraseBonus(comment, query),
               t)

\* The comments of the outcomes that are kept.
CommentsOf(judged) == [i \in 1..Len(judged) |-> judged[i].comment]

KeptOf(judged) ==
  CommentsOf(FilterIdx(judged, {i \in 1..Len(judged) : judged[i].keep}, 1))

\* The comments kept and scored by the filter type, at time t.
FilterAndScore(comments, searchTerms, filterType, query, t) ==
  KeptOf([i \in 1..Len(comments) |->
            FilterCallback(comments[i], searchTerms, filterType, query, t)])

\* Every criterion sorts by the score
SortKey_AlwaysScore(comment, sortBy) == comment.score

\* The key of the sort for sortBy.
SortKey(comment, sortBy) ==
  CASE sortBy = "upvotes" -> Whole(comment.upvotes)
    [] sortBy = "timestamp" -> Whole(comment.timestamp)
    [] sortBy = "awards" -> Whole(comment.awards)
    [] OTHER -> comment.score

\* filteredComments.sort(...) for sortBy
SortBy(comments, sortBy) ==
  SortDescending(comments, [i \in 1..Len(comments) |-> SortKey(comments[i], sortBy)])

processCommentsWithSearchTerms(comments, searchTerms, filterType, query, sortBy, minUpvotes, t) ==
  RemoveDuplicates(
    SortBy(FilterAndScore(MinUpvotesFilter(comments, minUpvotes),
                          searchTerms, filterType, query, t),
           sortBy))

(***************************************************************************)
(* The fallback comments.  Their timestamp is the time the module was      *)
(* loaded, time 0.                                                         *)
(***************************************************************************)
MockComment(id, author, body, subreddit, upvotes, awards) ==
  [id |-> id, author |-> author, body |-> body, subreddit |-> subreddit,
   upvotes |-> upvotes, timestamp |-> 0, awards |-> awards,
   matchScore |-> 0, score |-> Zero]

\* No fallback comments at all
mockComments_None == <<>>

mockComments ==
  <<MockComment("mock1", "tech_enthusiast",
      "Modern programming languages like Rust and Go are gaining popularity for their performance characteristics and safety features.",
      "programming", 128, 2),
    MockComment("mock2", "science_lover",
      "The James Webb Space Telescope has revolutionized our understanding of distant galaxies. The images are absolutely stunning!",
      "science", 243, 5),
    MockComment("mock3", "design_thinker",
      "Apple prioritizes simplicity and user experience over feature bloat, which is why their products remain popular despite the premium pricing.",
      "technology", 87, 1),
    MockComment("mock4", "movie_critic",
      "The latest superhero movie was terrible. The CGI looked cheap and the plot had more holes than Swiss cheese.",
      "movies", 54, 0),
    MockComment("mock5", "health_advisor",
      "Regular exercise and a balanced diet are still the best ways to maintain long-term health, despite all the fad diets that come and go.",
      "health", 176, 3)>>

\* seq.slice(0, n) for n >= 0
SliceTo(seq, n) == SubSeq(seq, 1, Min(n, Len(seq)))

(***************************************************************************)
(* searchComments                                                          *)
(*                                                                         *)
(* search is the search in progress and what the last one returned:        *)
(*   pc          "idle"    no search awaits (the last one has returned)    *)
(*               "racing"  it awaits the race of the subreddit tasks with  *)
(*                         the 8000 ms timer                               *)
(*               "supp"    it awaits the direct comment search             *)
(*   subs[s]     the task of subreddits[s]: pc "listing" (awaits the posts *)
(*               of sortMethods[m]), "chunk" (awaits the comments of the   *)
(*               posts i+1 .. i+chunkSize), "delay" (sleeps 500 ms) or     *)
(*               "done"; res[j] is what the j-th fetch of the chunk gave   *)
(*   getOk       some API GET of this harvest has succeeded                *)
(*   dropped     the merges that have dropped a comment already present    *)
(*   late        the ids of the comments that the subreddit tasks have     *)
(*               pushed while the direct comment search was awaited        *)
(*   out         what the last search returned, and how                    *)
(* The subreddit tasks go on after the search has returned; nothing reads  *)
(* allComments then, and the comments they find are no longer recorded.  A *)
(* search that misses the cache starts when the tasks of the last one have *)
(* ended.                                                                  *)
(*                                                                         *)
(* A response is a record: shape "listing" with children (posts, or the    *)
(* items of the comment search), shape "thread" with the reply tree of     *)
(* response[1], or shape "other", a JSON without these fields.             *)
(***************************************************************************)
chunkSize == 3

MainTask == 0
SubTask(s) == s * (chunkSize + 1)
FetchTask(s, j) == s * (chunkSize + 1) + j
TasksOf(n) ==
  {MainTask} \cup {SubTask(s) : s \in 1..n}
             \cup {FetchTask(s, j) : s \in 1..n, j \in 1..chunkSize}

NoOut == [kind |-> "none", result |-> <<>>, getOk |-> FALSE, dropped |-> {},
          query |-> "", collected |-> {}, failed |-> {}, late |-> {}]
NoParams == [query |-> "", filterType |-> "all", timeFrame |-> "week",
             sortBy |-> "relevance", minUpvotes |-> 0, limit |-> 0]
NoWorld == [expiresIn |-> {}, exchangeFails |-> FALSE, gets |-> {},
            timer |-> FALSE, rich |-> FALSE, crowded |-> FALSE,
            malformed |-> FALSE]
NoSearch == [pc |-> "idle",
             base |-> [params |-> NoParams, typeofQuery |-> "string", page |-> 1,
                       world |-> NoWorld],
             params |-> NoParams, page |-> 1, cacheKey |-> "",
             searchTerms |-> <<>>, subreddits |-> <<>>, allComments |-> <<>>,
             subs |-> <<>>, getOk |-> FALSE, dropped |-> {}, failed |-> {},
             late |-> {}, out |-> NoOut]
NoSearchHist == [has |-> FALSE, params |-> NoParams, page |-> 1, key |-> "",
                 T |-> 0, cached |-> <<>>, returned |-> <<>>]
\* No call of the pair has been made.
NoRuns == [r |-> <<>>, ended |-> <<>>, overlap |-> FALSE]
DoneSub == [pc |-> "done", m |-> 0, posts |-> <<>>, i |-> 0, res |-> <<>>]

\* Math.ceil(a / b) for a >= 0, b > 0
CeilDiv(a, b) == (a + b - 1) \div b

\* query.toLowerCase().trim().split(/\s+/).filter(term => term.length > 0)
SearchTermsOf(query) == SplitWords(trim(toLowerCase(query)), "")

topics ==
  <<<<"technology", "programming", "webdev", "coding", "compsci">>,
    <<"science", "askscience", "physics", "chemistry", "biology">>,
    <<"news", "worldnews", "politics", "currentevents">>,
    <<"movies", "television", "music", "gaming">>,
    <<"sports", "nba", "soccer", "nfl", "baseball">>>>

\* Some search term is part of, or contains, one of the related terms.
TopicMatches(relatedTerms, searchTerms) ==
  \E k \in 1..Len(searchTerms), r \in 1..Len(relatedTerms) :
    \/ Includes(relatedTerms[r], searchTerms[k])
    \/ Includes(searchTerms[k], relatedTerms[r])

\* The random choices of one related term per topic.
PickChoices(searchTerms) ==
  LET S(k) == IF TopicMatches(topics[k], searchTerms)
                THEN 1..Len(topics[k]) ELSE {1}
  IN {<<a, b, c, d, e>> : a \in S(1), b \in S(2), c \in S(3), d \in S(4), e \in S(5)}

RECURSIVE TopicPicks(_, _, _)
TopicPicks(searchTerms, picks, k) ==
  IF k > Len(topics) THEN <<>>
  ELSE (IF TopicMatches(topics[k], searchTerms) THEN <<topics[k][picks[k]]>> ELSE <<>>)
         \o TopicPicks(searchTerms, picks, k + 1)

\* [...new Set(seq)]
Unique(seq) ==
  FilterIdx(seq, {i \in 1..Len(seq) : \A j \in 1..(i - 1) : seq[j] # seq[i]}, 1)

\* The popular subreddits and the topics on every page
SelectSubreddits_EveryPage(params, page, searchTerms, picks) ==
  IF params.filterType = "subreddit" /\ trim(params.query) # ""
    THEN <<trim(params.query)>>
    ELSE Unique(<<"all", "popular", "trending">> \o TopicPicks(searchTerms, picks, 1))

\* The subreddits to search.
SelectSubreddits(params, page, searchTerms, picks) ==
  IF params.filterType = "subreddit" /\ trim(params.query) # ""
    THEN <<trim(params.query)>>
    ELSE Unique(<<"all">> \o
                (IF page = 1
                   THEN <<"popular", "trending">> \o TopicPicks(searchTerms, picks, 1)
                   ELSE <<>>))

sortMethods(subreddit) ==
  IF subreddit = "all" THEN <<"hot", "top", "rising", "new">> ELSE <<"hot", "top">>

postsPerSubreddit(sc) == CeilDiv(sc.params.limit, Len(sc.subreddits))

\* commentsArrays.flat().forEach: push the comments whose id is not present
\* yet.  The result is the list, and whether some comment was dropped.
RECURSIVE MergeInto_NoCheck(_, _, _)
MergeInto_NoCheck(all, comments, k) ==
  IF k > Len(comments) THEN [all |-> all, dropped |-> FALSE]
  ELSE MergeInto_NoCheck(Append(all, comments[k]), comments, k + 1)

RECURSIVE MergeInto(_, _, _)
MergeInto(all, comments, k) ==
  IF k > Len(comments) THEN [all |-> all, dropped |-> FALSE]
  ELSE IF \E i \in 1..Len(all) : all[i].id = comments[k].id
    THEN [MergeInto(all, comments, k + 1) EXCEPT !.dropped = TRUE]
    ELSE MergeInto(Append(all, comments[k]), comments, k + 1)

\* Lines 437-457: the items of the comment search are merged one by one.
\* An item that is a comment, not deleted or removed and not there yet is
\* built with its own subreddit and pushed; when the building throws, the
\* forEach ends there, with the comments pushed so far.
RECURSIVE MergeSearchItems(_, _, _)
MergeSearchItems(all, children, k) ==
  IF k > Len(children) THEN [all |-> all, dropped |-> FALSE, threw |-> FALSE]
  ELSE IF ~IsCommentNode(children[k]) \/ IsSkipped(children[k])
    THEN MergeSearchItems(all, children, k + 1)
  ELSE IF \E i \in 1..Len(all) : all[i].id = children[k].id
    THEN [MergeSearchItems(all, children, k + 1) EXCEPT !.dropped = TRUE]
  ELSE IF InvalidTime(children[k])
    THEN [all |-> all, dropped |-> FALSE, threw |-> TRUE]
  ELSE MergeSearchItems(Append(all, CommentOf(children[k], children[k].subreddit)),
                        children, k + 1)

\* The synchronous start of redditApiRequest(url).
StartCall(url) ==
  redditApiRequest_start([IdleCall EXCEPT !.url = url], 1,
                         accessToken, tokenExpiration, tokenRetryCount, now)

\* The state a handler works on: the search, the calls, the cache and the
\* history of the cache writes of searches.
St == [s |-> search, a |-> api, c |-> cache, h |-> searchHist]

\* The handler has run: its state is the next state.
Commit(st) ==
  /\ search' = st.s
  /\ api' = st.a
  /\ cache' = st.c
  /\ searchHist' = st.h
  /\ tokenHist' = IF \E t \in DOMAIN st.a :
                       st.a[t].pc = "get" /\ (t \notin DOMAIN api \/ api[t].pc # "get")
                    THEN HistAfterStart([IdleCall EXCEPT !.pc = "get"])
                    ELSE tokenHist
  /\ UNCHANGED <<now, cacheObs, cacheHist, tokenVars, exVars, runs, rankVars>>

\* Lines 465-474: rank the comments collected, or take the fallback ones if
\* there is none; store the list in the cache; return its first limit
\* entries.
\* The ids of the comments of a list.
IdsOf(comments) == {comments[i].id : i \in 1..Len(comments)}

FinalizeWith(st, processedComments) ==
  [st EXCEPT
     !.s.pc = "idle",
     !.s.allComments = <<>>,
     !.s.getOk = FALSE,
     !.s.dropped = {},
     !.s.failed = {},
     !.s.late = {},
     !.s.out = [kind |-> "miss", getOk |-> st.s.getOk, dropped |-> st.s.dropped,
                failed |-> st.s.failed, late |-> st.s.late,
                query |-> st.s.params.query, collected |-> IdsOf(st.s.allComments),
                result |-> SliceTo(processedComments, st.s.params.limit)],
     !.c = SearchCache_set(st.c, st.s.cacheKey, processedComments, now),
     !.h = [has |-> TRUE, params |-> st.s.params, page |-> st.s.page,
            key |-> st.s.cacheKey, T |-> now, cached |-> processedComments,
            returned |-> SliceTo(processedComments, st.s.params.limit)]]

\* The fallback comments also when the ranking keeps no comment
Finalize_MockIfNoneKept(st) ==
  FinalizeWith(st,
    IF Len(st.s.allComments) > 0
         /\ Len(processCommentsWithSearchTerms(st.s.allComments, st.s.searchTerms,
                   st.s.params.filterType, st.s.params.query, st.s.params.sortBy,
                   st.s.params.minUpvotes, now)) > 0
      THEN processCommentsWithSearchTerms(st.s.allComments, st.s.searchTerms,
             st.s.params.filterType, st.s.params.query, st.s.params.sortBy,
             st.s.params.minUpvotes, now)
      ELSE mockComments)

Finalize(st) ==
  FinalizeWith(st,
    IF Len(st.s.allComments) > 0
      THEN processCommentsWithSearchTerms(st.s.allComments, st.s.searchTerms,
             st.s.params.filterType, st.s.params.query, st.s.params.sortBy,
             st.s.params.minUpvotes, now)
      ELSE mockComments)

\* The direct comment search only when fewer than limit comments are there
MainAfterRace_WithinLimit(st) ==
  IF Len(st.s.allComments) < st.s.params.limit /\ Len(st.s.searchTerms) > 0
    THEN [st EXCEPT !.s.pc = "supp", !.a[MainTask] = StartCall("search")]
    ELSE Finalize(st)

\* Lines 429-435: the race is over; the direct comment search is issued if
\* fewer than limit * 2 comments are there and the query has a term.
MainAfterRace(st) ==
  IF Len(st.s.allComments) < st.s.params.limit * 2 /\ Len(st.s.searchTerms) > 0
    THEN [st EXCEPT !.s.pc = "supp", !.a[MainTask] = StartCall("search")]
    ELSE Finalize(st)

\* The task of subreddit s goes on to its sort method m: it requests the
\* posts, or it ends when there is no such method; when the last task ends
\* Promise.all resolves, and the search resumes if it still awaits the race.
SubAdvance(st, s, m) ==
  IF m > Len(sortMethods(st.s.subreddits[s]))
    THEN LET st1 == [st EXCEPT !.s.subs[s] = DoneSub]
         IN IF st1.s.pc = "racing"
                 /\ \A s2 \in 1..Len(st1.s.subs) : st1.s.subs[s2].pc = "done"
              THEN MainAfterRace(st1) ELSE st1
    ELSE [st EXCEPT !.s.subs[s] = [pc |-> "listing", m |-> m, posts |-> <<>>,
                                   i |-> 0, res |-> <<>>],
                    !.a[SubTask(s)] = StartCall("listing")]

\* Lines 408-416: the fetches of the chunk have settled; their comments are
\* merged and the task sleeps 500 ms.
MergeChunk(st, s) ==
  LET res == st.s.subs[s].res
      RECURSIVE Flat(_)
      Flat(j) == IF j > Len(res) THEN <<>> ELSE res[j].comments \o Flat(j + 1)
      merged == MergeInto(st.s.allComments, Flat(1), 1)
  IN [st EXCEPT !.s.allComments = IF st.s.pc = "idle" THEN <<>> ELSE merged.all,
                !.s.dropped = IF merged.dropped /\ st.s.pc # "idle"
                                THEN @ \cup {"fetch"} ELSE @,
                !.s.late = IF st.s.pc = "supp"
                             THEN @ \cup (IdsOf(merged.all) \ IdsOf(st.s.allComments))
                             ELSE @,
                !.s.subs[s].pc = "delay",
                !.s.subs[s].res = <<>>]

\* Lines 399-408: the chunk of the posts i+1 .. i+chunkSize: a fetch of the
\* comments is started for every post of kind t3 with an id; the others
\* give no comment.
StartChunk(st, s, i) ==
  LET posts == st.s.subs[s].posts
      n == Min(chunkSize, Len(posts) - i)
      IsPost(j) == posts[i + j].kind = "t3" /\ posts[i + j].id # ""
      st1 == [st EXCEPT
                !.s.subs[s].pc = "chunk",
                !.s.subs[s].i = i,
                !.s.subs[s].res = [j \in 1..n |-> [done |-> ~IsPost(j), comments |-> <<>>]],
                !.a = [t \in DOMAIN st.a |->
                         IF \E j \in 1..n : t = FetchTask(s, j) /\ IsPost(j)
                           THEN StartCall("thread") ELSE st.a[t]]]
  IN IF \A j \in 1..n : ~IsPost(j) THEN MergeChunk(st1, s) ELSE st1

\* The tasks of the last harvest have ended.
HarvestOver ==
  /\ search.pc = "idle"
  /\ \A s \in 1..Len(search.subs) : search.subs[s].pc = "done"
  /\ \A t \in DOMAIN api : api[t].pc = "idle"

RECURSIVE StartSubs(_, _)
StartSubs(st, s) ==
  IF s > Len(st.s.subreddits) THEN st ELSE StartSubs(SubAdvance(st, s, 1), s + 1)

\* typeof query === 'string'; params.query.toLowerCase is a function
IsString(type) == type = "string"
HasToLowerCase(type) == type \in {"string", "object"}

\* Lines 475-478: the error thrown inside try is caught and logged, and the
\* first limit fallback comments are returned.
Caught(st, q) ==
  [st EXCEPT !.s.out = [kind |-> "caught", getOk |-> FALSE, dropped |-> {},
                        query |-> q, collected |-> {}, failed |-> {}, late |-> {},
                        result |-> SliceTo(mockComments, st.s.base.params.limit)]]

\* Lines 320-427, the key being computed: the cached list is returned if
\* the cache has one; a query that is no string throws; otherwise the
\* subreddit tasks are started.
SearchAfterGet(q, picks, params, page, cacheKey, cachedResults) ==
  IF ~cachedResults.isNull
    THEN /\ picks = <<1, 1, 1, 1, 1>>
         /\ Commit([St EXCEPT
              !.c = cachedResults.cache,
              !.s.out = [kind |-> "hit", getOk |-> FALSE, dropped |-> {},
                         query |-> q, collected |-> {}, failed |-> {}, late |-> {},
                         result |-> cachedResults.results]])
    ELSE IF ~IsString(search.base.typeofQuery)
      THEN /\ picks = <<1, 1, 1, 1, 1>>
           /\ Commit(Caught([St EXCEPT !.c = cachedResults.cache], q))
      ELSE /\ HarvestOver
           /\ picks \in PickChoices(SearchTermsOf(q))
           /\ Commit(StartSubs(
                [St EXCEPT
                   !.c = cachedResults.cache,
                   !.a = [t \in TasksOf(Len(SelectSubreddits(params, page,
                                              SearchTermsOf(q), picks))) |-> IdleCall],
                   !.s = [search EXCEPT
                            !.pc = "racing", !.params = params,
                            !.page = page, !.cacheKey = cacheKey,
                            !.searchTerms = SearchTermsOf(q),
                            !.subreddits = SelectSubreddits(params, page,
                                             SearchTermsOf(q), picks),
                            !.allComments = <<>>,
                            !.subs = [s \in 1..Len(SelectSubreddits(params, page,
                                                     SearchTermsOf(q), picks)) |-> DoneSub],
                            !.getOk = FALSE, !.dropped = {}, !.failed = {},
                            !.late = {},
                            !.out = [NoOut EXCEPT !.query = q]]], 1))

SearchWithKey(q, picks, params, page) ==
  SearchAfterGet(q, picks, params, page, getCacheKey(params, page),
                 SearchCache_get(cache, getCacheKey(params, page), now))

\* searchComments(params, page) is called with the query text q, picks being
\* the random choices.  Line 319: the key of a query without toLowerCase
\* throws.
SearchStart(q, picks) ==
  /\ Quiescent
  /\ search.pc = "idle"
  /\ IF ~HasToLowerCase(search.base.typeofQuery)
       THEN /\ picks = <<1, 1, 1, 1, 1>>
            /\ Commit(Caught(St, q))
       ELSE SearchWithKey(q, picks, [search.base.params EXCEPT !.query = q],
                          search.base.page)

\* The task of subreddit s ends at the first error
AfterListingError_Abort(st, s, m) ==
  SubAdvance(st, s, Len(sortMethods(st.s.subreddits[s])) + 1)

\* Lines 419-421: the error of the request of sort method m is caught and
\* logged inside the loop, which goes on.
AfterListingError(st, s, m) == SubAdvance(st, s, m + 1)

\* The request of the posts of subreddit s settles (lines 390-396, 419-421):
\* its first postsPerSubreddit posts are fetched in chunks; without posts,
\* or on an error, the task goes on to its next sort method.
SubListingReturn(s) ==
  /\ s \in 1..Len(search.subs)
  /\ search.subs[s].pc = "listing"
  /\ Settled(SubTask(s))
  /\ LET r == api[SubTask(s)]
         m == search.subs[s].m
         st0 == [St EXCEPT !.a[SubTask(s)] = IdleCall,
                           !.s.getOk = @ \/ (r.pc = "ok" /\ search.pc # "idle"),
                           !.s.failed = IF r.pc = "err" /\ search.pc # "idle"
                                          THEN @ \cup {"listing"} ELSE @]
     IN IF r.pc = "ok" /\ r.data.shape = "listing"
          THEN LET posts == SliceTo(r.data.children, postsPerSubreddit(search))
               IN IF Len(posts) = 0
                    THEN Commit(SubAdvance(st0, s, m + 1))
                    ELSE Commit(StartChunk([st0 EXCEPT !.s.subs[s].posts = posts], s, 0))
          ELSE IF r.pc = "err"
            THEN Commit(AfterListingError(st0, s, m))
            ELSE Commit(SubAdvance(st0, s, m + 1))

\* The chunk is over with the first of its fetches that settles
FetchReturn_First(s, j) ==
  /\ s \in 1..Len(search.subs)
  /\ search.subs[s].pc = "chunk"
  /\ j \in 1..Len(search.subs[s].res)
  /\ Settled(FetchTask(s, j))
  /\ Commit(MergeChunk(
       [St EXCEPT !.a[FetchTask(s, j)] = IdleCall,
                  !.s.subs[s].res[j] =
                     [done |-> TRUE,
                      comments |-> IF api[FetchTask(s, j)].pc = "ok"
                                        /\ api[FetchTask(s, j)].data.shape = "thread"
                                        /\ search.pc # "idle"
                                     THEN OrNone(extractComments(
                                            api[FetchTask(s, j)].data.tree,
                                            search.subreddits[s],
                                            search.subs[s].posts[search.subs[s].i + j].id))
                                     ELSE <<>>]], s))

\* fetchCommentsFromPost settles for the j-th post of the chunk of subreddit
\* s: the comments extracted from the thread, or none on an error, on
\* another response or when the extraction throws.  With the last fetch of
\* the chunk Promise.all resolves and the comments are merged.
FetchReturn(s, j) ==
  /\ s \in 1..Len(search.subs)
  /\ search.subs[s].pc = "chunk"
  /\ j \in 1..Len(search.subs[s].res)
  /\ Settled(FetchTask(s, j))
  /\ LET r == api[FetchTask(s, j)]
         post == search.subs[s].posts[search.subs[s].i + j]
         extracted == IF r.pc = "ok" /\ r.data.shape = "thread" /\ search.pc # "idle"
                        THEN extractComments(r.data.tree, search.subreddits[s], post.id)
                        ELSE [threw |-> FALSE, comments |-> <<>>]
         st0 == [St EXCEPT !.a[FetchTask(s, j)] = IdleCall,
                           !.s.getOk = @ \/ (r.pc = "ok" /\ search.pc # "idle"),
                           !.s.failed = IF r.pc = "err" /\ search.pc # "idle"
                                          THEN @ \cup {"fetch"}
                                          ELSE IF extracted.threw
                                            THEN @ \cup {"extract"} ELSE @,
                           !.s.subs[s].res[j] = [done |-> TRUE,
                                                 comments |-> OrNone(extracted)]]
     IN IF \A k \in 1..Len(st0.s.subs[s].res) : st0.s.subs[s].res[k].done
          THEN Commit(MergeChunk(st0, s))
          ELSE Commit(st0)

\* The 500 ms delay after a chunk is over: the next chunk, or the next sort
\* method.
DelayDone(s) ==
  /\ Quiescent
  /\ s \in 1..Len(search.subs)
  /\ search.subs[s].pc = "delay"
  /\ LET i2 == search.subs[s].i + chunkSize
     IN IF i2 < Len(search.subs[s].posts)
          THEN Commit(StartChunk(St, s, i2))
          ELSE Commit(SubAdvance(St, s, search.subs[s].m + 1))

\* The timer fires and the search goes on awaiting the subreddit tasks
TimerFire_Ignored ==
  /\ Quiescent
  /\ search.base.world.timer
  /\ search.pc = "racing"
  /\ Commit(St)

\* The 8000 ms timer fires while the search awaits the race.
TimerFire ==
  /\ Quiescent
  /\ search.base.world.timer
  /\ search.pc = "racing"
  /\ Commit(MainAfterRace(St))

\* The direct comment search settles (lines 437-462): its comments that are
\* not there yet are merged; an error, of the call or of the building of a
\* comment, is logged.  Then the search returns.
MainSuppReturn ==
  /\ search.pc = "supp"
  /\ Settled(MainTask)
  /\ LET r == api[MainTask]
         merged == IF r.pc = "ok" /\ r.data.shape = "listing"
                     THEN MergeSearchItems(search.allComments, r.data.children, 1)
                     ELSE [all |-> search.allComments, dropped |-> FALSE,
                           threw |-> FALSE]
         st0 == [St EXCEPT !.a[MainTask] = IdleCall,
                           !.s.getOk = @ \/ r.pc = "ok",
                           !.s.failed = IF r.pc = "err" THEN @ \cup {"search"}
                                        ELSE IF merged.threw
                                          THEN @ \cup {"merge"} ELSE @,
                           !.s.allComments = merged.all,
                           !.s.dropped = IF merged.dropped THEN @ \cup {"search"} ELSE @]
     IN Commit(Finalize(st0))

(***************************************************************************)
(* The cache on its own: any sequence of get, set and clear at any times.  *)
(***************************************************************************)
CacheKeys == {"k1", "k2", "k3"}
CacheValues == {<<>>, <<"c1">>}
\* The key whose writes the history variable follows.
WatchedKey == "k1"

\* The watched entry stops being live when a set evicts it or clear removes
\* it; the lazy deletion of an expired entry by get is not an eviction.
HistAfterRemoval(c2) ==
  IF cacheHist.live /\ WatchedKey \notin CacheKeysOf(c2)
    THEN [cacheHist EXCEPT !.live = FALSE]
    ELSE cacheHist

CacheGetOp(k) ==
  LET r == SearchCache_get(cache, k, now)
  IN /\ cache' = r.cache
     /\ cacheObs' = [op |-> "get", key |-> k, isNull |-> r.isNull,
                     results |-> r.results, atCapacity |-> FALSE]
     /\ cacheHist' =
          IF k = WatchedKey /\ cacheHist.live
            THEN [cacheHist EXCEPT
                    !.hitBefore = @ \/ (~r.isNull /\ now - cacheHist.T = ttl - 1),
                    !.missAfter = @ \/ (r.isNull /\ now - cacheHist.T = ttl + 1)]
            ELSE cacheHist
     /\ UNCHANGED <<now, tokenVars, tokenHist, api, exVars, searchVars, rankVars>>

CacheSetOp(k, v) ==
  LET c2 == SearchCache_set(cache, k, v, now)
  IN /\ cache' = c2
     /\ cacheObs' = [op |-> "set", key |-> k, isNull |-> TRUE, results |-> v,
                     atCapacity |-> (Len(cache) = maxSize /\ k \notin CacheKeysOf(cache))]
     /\ cacheHist' = IF k = WatchedKey
                       THEN [has |-> TRUE, T |-> now, v |-> v, live |-> TRUE,
                             hitBefore |-> FALSE, missAfter |-> FALSE]
                       ELSE HistAfterRemoval(c2)
     /\ UNCHANGED <<now, tokenVars, tokenHist, api, exVars, searchVars, rankVars>>

CacheClearOp ==
  /\ cache' = SearchCache_clear(cache)
  /\ cacheObs' = [NoObs EXCEPT !.op = "clear"]
  /\ cacheHist' = HistAfterRemoval(<<>>)
  /\ UNCHANGED <<now, tokenVars, tokenHist, api, exVars, searchVars, rankVars>>

\* The clock advances by d ms, up to the bound.
Tick(d, bound) ==
  /\ now + d <= bound
  /\ now' = now + d
  /\ UNCHANGED <<cacheVars, tokenVars, tokenHist, api, exVars, searchVars, rankVars>>

CacheInit ==
  /\ now = 0
  /\ cache = <<>>
  /\ cacheObs = NoObs
  /\ cacheHist = NoHist
  /\ accessToken = Null
  /\ tokenExpiration = 0
  /\ tokenRetryCount = 0
  /\ tokenHist = NoTokenHist
  /\ api = <<>>
  /\ exIn = NoExtractIn
  /\ exOut = NoExtractOut
  /\ search = NoSearch
  /\ searchHist = NoSearchHist
  /\ runs = NoRuns
  /\ rankIn = NoRankIn
  /\ rankOut = NoRankOut

CacheNext ==
  \/ \E k \in CacheKeys : CacheGetOp(k)
  \/ \E k \in CacheKeys, v \in CacheValues : CacheSetOp(k, v)
  \/ CacheClearOp
  \/ Tick(1, MaxNow)

CacheSpec == CacheInit /\ [][CacheNext]_vars

(***************************************************************************)
(* C3: an entry written by set(k, v) at time T, not overwritten or evicted *)
(* since, is returned by get(k) at every time t with t - T <= ttl and is   *)
(* absent (null) at every time t with t - T > ttl.                         *)
(***************************************************************************)
C3_TtlBoundary ==
  [][(CacheGetOp(WatchedKey) /\ cacheHist.live)
       => IF now - cacheHist.T <= ttl
            THEN ~cacheObs'.isNull /\ cacheObs'.results = cacheHist.v
            ELSE cacheObs'.isNull]_vars

\* One written entry was read at T + ttl - 1 and found absent at T + ttl + 1.
C3_Witness ==
  /\ cacheHist.live
  /\ cacheHist.hitBefore
  /\ cacheHist.missAfter
  /\ cacheObs.op = "get"
  /\ cacheObs.isNull

(***************************************************************************)
(* C4: set of a new key into a cache holding exactly maxSize entries       *)
(* removes exactly one entry, one of the smallest insertion timestamp,     *)
(* inserts the new entry and leaves the size equal to maxSize.             *)
(***************************************************************************)
C4_EvictOldest ==
  [][\A k \in CacheKeys, v \in CacheValues :
       (CacheSetOp(k, v) /\ Len(cache) = maxSize /\ k \notin CacheKeysOf(cache))
         => /\ Len(cache') = maxSize
            /\ \E i \in 1..Len(cache') :
                 cache'[i] = [key |-> k, timestamp |-> now, results |-> v]
            /\ \E j \in 1..Len(cache) :
                 /\ \A m \in 1..Len(cache) : cache[j].timestamp <= cache[m].timestamp
                 /\ CacheKeysOf(cache) \ CacheKeysOf(cache') = {cache[j].key}
                 /\ \A m \in 1..Len(cache) :
                      m # j => \E i \in 1..Len(cache') : cache'[i] = cache[m]]_vars

\* A set of a new key at capacity has happened, evicting a strictly oldest entry.
C4_Witness ==
  /\ cacheObs.op = "set"
  /\ cacheObs.atCapacity
  /\ Len(cache) = maxSize
  /\ \E i, j \in 1..Len(cache) : cache[i].timestamp < cache[j].timestamp

(***************************************************************************)
(* C5: after any sequence of get, set and clear the number of stored       *)
(* entries never exceeds maxSize.                                          *)
(***************************************************************************)
C5_SizeBound == SearchCache_size(cache) <= maxSize

\* The cache is full and the last operation was a set that kept it full.
C5_Witness ==
  /\ SearchCache_size(cache) = maxSize
  /\ cacheObs.op = "set"
  /\ cacheObs.atCapacity

(***************************************************************************)
(* The client on its own: callers that call redditApiRequest(url) over and *)
(* over, against an arbitrary token endpoint and API.                      *)
(***************************************************************************)
NCallers == 2
AuthMaxNow == 2000
Callers == 1..NCallers
Tokens == {"tokA", "tokB"}
\* expires_in of the token response, in seconds.
ExpiresIn == {60, 62}
FailKinds == {"http_other", "network"}

\* A caller calls redditApiRequest(url).
\* A caller that waits while the exchange of another is in flight
Call_WaitsForExchange(p) ==
  /\ Quiescent
  /\ api[p].pc = "idle"
  /\ api' = [api EXCEPT ![p] =
               IF \E q \in DOMAIN api : api[q].pc = "exchange"
                 THEN [IdleCall EXCEPT !.url = "u", !.pc = "backoff", !.attempt = 1,
                                       !.wait = backoffTime(1)]
                 ELSE redditApiRequest_start([IdleCall EXCEPT !.url = "u"], 1,
                        accessToken, tokenExpiration, tokenRetryCount, now)]
  /\ tokenHist' = HistAfterStart(api'[p])
  /\ UNCHANGED <<now, cacheVars, tokenVars, exVars, searchVars, rankVars>>

Call(p) ==
  /\ Quiescent
  /\ api[p].pc = "idle"
  /\ api' = [api EXCEPT ![p] = redditApiRequest_start([IdleCall EXCEPT !.url = "u"], 1,
                                 accessToken, tokenExpiration, tokenRetryCount, now)]
  /\ tokenHist' = HistAfterStart(api'[p])
  /\ UNCHANGED <<now, cacheVars, tokenVars, exVars, searchVars, rankVars>>

\* The caller receives the result or the error of its call.
Return(p) ==
  /\ Settled(p)
  /\ api' = [api EXCEPT ![p] = IdleCall]
  /\ UNCHANGED <<now, cacheVars, tokenVars, tokenHist, exVars, searchVars, rankVars>>

AuthInit ==
  /\ now = 0
  /\ cache = <<>>
  /\ cacheObs = NoObs
  /\ cacheHist = NoHist
  /\ accessToken = Null
  /\ tokenExpiration = 0
  /\ tokenRetryCount = 0
  /\ tokenHist = NoTokenHist
  /\ api = [p \in Callers |-> IdleCall]
  /\ exIn = NoExtractIn
  /\ exOut = NoExtractOut
  /\ search = NoSearch
  /\ searchHist = NoSearchHist
  /\ runs = NoRuns
  /\ rankIn = NoRankIn
  /\ rankOut = NoRankOut

\* One step of the call of p: a timer fires or an HTTP call settles, with a
\* token of toks, an error of kinds or a response of datas.
CallStepWith(p, toks, kinds, datas) ==
  \/ BackoffDone(p)
  \/ \E tok \in toks, e \in ExpiresIn : ExchangeOk(p, tok, e)
  \/ ExchangeFail(p)
  \/ \E data \in datas : GetOk(p, data)
  \/ Get429(p)
  \/ Delay429Done(p)
  \/ Get401(p)
  \/ \E kind \in kinds : GetFail(p, kind)

CallStep(p) == CallStepWith(p, Tokens, FailKinds, {<<"json">>})

AuthNext ==
  \/ \E p \in Callers : Call(p)
  \/ \E p \in Callers : CallStep(p)
  \/ \E p \in Callers : Return(p)
  \/ Tick(1000, AuthMaxNow)

AuthSpec == AuthInit /\ [][AuthNext]_vars

\* The calls with the clock at rest: a token of lifetime 60 s has expired
\* when it is stored, one of 62 s stays valid.  One token value and one kind
\* of error stand for all.
FairStep(p) == CallStepWith(p, {"tokA"}, {"network"}, {<<"json">>})

AuthFairNext ==
  \/ \E p \in Callers : Call(p)
  \/ \E p \in Callers : FairStep(p)
  \/ \E p \in Callers : Return(p)

\* Every timer fires and every HTTP call settles (axios timeouts of 10 s and
\* 15 s), and a settled call resumes its caller.
AuthFairSpec ==
  /\ AuthInit /\ [][AuthFairNext]_vars
  /\ \A p \in Callers : SF_vars(FairStep(p)) /\ WF_vars(Return(p))

(***************************************************************************)
(* C6 as stated: in a failure episode (consecutive failing exchanges from  *)
(* counter 0) at most 3 token exchanges are attempted before the terminal  *)
(* failure that resets the counter.                                        *)
(***************************************************************************)
C6_AtMostThreeAttempts == tokenHist.termLen <= 3

(***************************************************************************)
(* C6 amended: an episode that ends terminally has exactly 4 failed token  *)
(* exchanges: the counter counts the failures of the episode, the first 3  *)
(* are transient, the 4th is terminal and leaves the counter at 0.         *)
(***************************************************************************)
C6_FourAttempts ==
  /\ tokenHist.epFails <= 3
  /\ tokenRetryCount = tokenHist.epFails
  /\ tokenHist.termLen \in {0, 4}
  /\ \A p \in DOMAIN api :
       (api[p].pc = "err" /\ api[p].err = "auth_terminal")
         => tokenRetryCount = 0 /\ tokenHist.termLen = 4
  /\ \A p \in DOMAIN api :
       (api[p].pc = "err" /\ api[p].err = "auth_transient")
         => tokenRetryCount \in 1..3

\* A call has just failed terminally, at the 4th failure of its episode.
C6_Witness ==
  \E p \in DOMAIN api :
    /\ api[p].pc = "err"
    /\ api[p].err = "auth_terminal"
    /\ tokenHist.termLen = 4
    /\ tokenRetryCount = 0

(***************************************************************************)
(* C7: a successful exchange at time T with expires_in E stores the expiry *)
(* T + E * 1000 - 60000 and sets the failure counter to 0; from then on,   *)
(* as long as no 401 has cleared the token, a call made strictly before    *)
(* that expiry gets the stored token and issues no token exchange, and a   *)
(* call made at or after it goes on to an exchange (after the backoff     *)
(* pause, if one is due).  The failed exchange of another caller is no     *)
(* 401: the token it clears before the expiry is one the calls are still   *)
(* to be served.                                                           *)
(***************************************************************************)
C7_TokenReuseUntil401 ==
  /\ [][\A p \in DOMAIN api :
         (api[p].pc = "exchange" /\ api'[p].pc = "get")
           => /\ accessToken' = tokenHist'.okTok
              /\ tokenExpiration' = tokenHist'.okT + tokenHist'.okE * 1000 - 60000
              /\ tokenHist'.okT = now
              /\ tokenRetryCount' = 0]_vars
  /\ [][\A p \in DOMAIN api :
         ((Call(p) \/ Delay429Done(p)) /\ tokenHist.no401)
           => IF now < ExpirationOf(tokenHist.okT, tokenHist.okE)
                THEN api'[p].pc = "get" /\ api'[p].bearer = tokenHist.okTok
                ELSE api'[p].pc \in {"backoff", "exchange"}]_vars

(***************************************************************************)
(* C8: whatever the API answers, one top-level redditApiRequest(url) call  *)
(* issues at most 3 GETs and always ends with a result or an error.        *)
(***************************************************************************)
C8_AtMostThreeGets ==
  /\ [](\A p \in DOMAIN api : api[p].gets <= 3)
  /\ \A p \in Callers : (Pending(p) ~> Settled(p))

\* A call settled after its third GET.
C8_Witness ==
  \E p \in DOMAIN api : api[p].gets = 3 /\ Settled(p) /\ api[p].attempt = 3

(***************************************************************************)
(* extractComments on its own: reply chains of every length up to          *)
(* MaxChain, one node of which may be deleted, removed, without author or  *)
(* created_utc, of another kind or without data.                           *)
(***************************************************************************)
MaxChain == 50
NodeVariants == {"plain", "deletedBody", "removedBody", "deletedAuthor",
                 "noAuthor", "noCreated", "more", "noData"}

\* The node of a chain at depth d: its id names its depth.
ChainNode(d, variant, replies) ==
  LET id == "n" \o ToString(d)
  IN CASE variant = "plain" -> Node("t1", id, "ann", "text", d, 1, 0, replies)
       [] variant = "deletedBody" -> Node("t1", id, "ann", "[deleted]", d, 1, 0, replies)
       [] variant = "removedBody" -> Node("t1", id, "ann", "[removed]", d, 1, 0, replies)
       [] variant = "deletedAuthor" -> Node("t1", id, "[deleted]", "text", d, 1, 0, replies)
       [] variant = "noAuthor" -> Node("t1", id, "", "text", d, 1, 0, replies)
       [] variant = "noCreated" ->
            NoCreated(Node("t1", id, "ann", "text", d, 0, 0, replies))
       [] variant = "more" -> Node("more", id, "", "", 0, 0, 0, replies)
       [] OTHER -> [Node("t1", id, "", "", 0, 0, 0, <<>>) EXCEPT !.hasData = FALSE]

\* The chain of n nodes, each but the first the only reply of the one
\* before it; the node at depth k is of the given variant.
Chain(n, k, variant) ==
  [nodes |-> [i \in 1..n |->
                ChainNode(i - 1, IF i - 1 = k THEN variant ELSE "plain",
                          IF i < n THEN <<i + 1>> ELSE <<>>)],
   roots |-> <<1>>]

ExtractInputs ==
  {[data |-> Chain(n, k, v), subreddit |-> "pics", postId |-> "p1"] :
     n \in 1..MaxChain, k \in 0..MaxChain, v \in NodeVariants}

ExtractInit ==
  /\ now = 0
  /\ cache = <<>>
  /\ cacheObs = NoObs
  /\ cacheHist = NoHist
  /\ accessToken = Null
  /\ tokenExpiration = 0
  /\ tokenRetryCount = 0
  /\ tokenHist = NoTokenHist
  /\ api = <<>>
  /\ exIn \in ExtractInputs
  /\ exOut = NoExtractOut
  /\ search = NoSearch
  /\ searchHist = NoSearchHist
  /\ runs = NoRuns
  /\ rankIn = NoRankIn
  /\ rankOut = NoRankOut

DoExtract ==
  /\ ~exOut.done
  /\ exOut' \in
       {[done |-> TRUE, threw |-> r.threw, comments |-> r.comments] :
          r \in {extractComments(exIn.data, exIn.subreddit, exIn.postId)}}
  /\ UNCHANGED <<now, cacheVars, tokenVars, tokenHist, api, exIn, searchVars, rankVars>>

ExtractNext == DoExtract

ExtractSpec == ExtractInit /\ [][ExtractNext]_vars

\* The indices of the nodes of depth exactly target below the children data
\* of depth depth.
RECURSIVE AtDepth(_, _, _, _)
AtDepth(nodes, data, depth, target) ==
  IF depth = target THEN {data[i] : i \in 1..Len(data)}
  ELSE UNION {AtDepth(nodes, nodes[data[i]].replies, depth + 1, target) :
                i \in 1..Len(data)}

\* The tree cut below depth cap: the nodes of depth cap lose their replies.
TruncateAt(tree, cap) ==
  LET last == AtDepth(tree.nodes, tree.roots, 0, cap)
  IN [tree EXCEPT !.nodes =
        [i \in DOMAIN tree.nodes |->
           IF i \in last THEN [tree.nodes[i] EXCEPT !.replies = <<>>]
           ELSE tree.nodes[i]]]

\* The ids of the nodes of depth at most cap.
IdsWithin(tree, cap) ==
  {tree.nodes[i].id :
     i \in UNION {AtDepth(tree.nodes, tree.roots, 0, d) : d \in 0..cap}}

\* The number of nodes of a chain.
ChainLen(tree) == Len(tree.nodes)

\* Every node of the chain is a comment that is not skipped and that has
\* its created_utc.
AllPlain(tree) ==
  \A i \in DOMAIN tree.nodes :
    /\ IsCommentNode(tree.nodes[i]) /\ ~IsSkipped(tree.nodes[i])
    /\ ~InvalidTime(tree.nodes[i])

(***************************************************************************)
(* C9: extractComments ends, and how it ends for a reply chain (of up to   *)
(* 50 levels) is how it ends for the chain truncated at depth 10 (the top  *)
(* level being depth 0): it returns the same comments, or it throws in     *)
(* both cases (a comment of depth at most 10 has no created_utc).  No      *)
(* comment deeper than 10 is emitted, and a chain of well-formed comments  *)
(* none of which is skipped yields its first 11.                           *)
(***************************************************************************)
C9_DepthCap ==
  exOut.done =>
    /\ [threw |-> exOut.threw, comments |-> exOut.comments] =
         extractComments(TruncateAt(exIn.data, 10), exIn.subreddit, exIn.postId)
    /\ \A i \in 1..Len(exOut.comments) :
         exOut.comments[i].id \in IdsWithin(exIn.data, 10)
    /\ AllPlain(exIn.data) => Len(exOut.comments) = Min(ChainLen(exIn.data), 11)

\* A chain of 50 comments was extracted: the 11 of depth 0 to 10 came out.
C9_Witness ==
  /\ exOut.done
  /\ ChainLen(exIn.data) = 50
  /\ AllPlain(exIn.data)
  /\ Len(exOut.comments) = 11
  /\ exOut.comments[11].id = "n10"

(***************************************************************************)
(* Searches: one request, chosen at the start, is searched again and       *)
(* again, its query in either case; the API answers each call as it likes. *)
(* The clock advances between the harvests: a token of lifetime 60 s has   *)
(* expired when it is stored, one of 62 s stays valid.                     *)
(***************************************************************************)
SearchMaxNow == 2

Params(query, filterType, sortBy, minUpvotes, limit) ==
  [query |-> query, filterType |-> filterType, timeFrame |-> "week",
   sortBy |-> sortBy, minUpvotes |-> minUpvotes, limit |-> limit]

\* What the API does in a run: the lifetimes of the tokens it grants, whether
\* it refuses a token exchange, how it answers a GET ("ok", "429", "401",
\* "network"), whether the timer of the race may fire before the subreddit
\* tasks have ended, and whether its answers vary.  Crowded makes every
\* listing of the run one of four posts; Malformed lets comments of the run
\* come without created_utc.
World(expiresIn, exchangeFails, gets, timer, rich) ==
  [expiresIn |-> expiresIn, exchangeFails |-> exchangeFails, gets |-> gets,
   timer |-> timer, rich |-> rich, crowded |-> FALSE, malformed |-> FALSE]

Crowded(scenario) == [scenario EXCEPT !.world.crowded = TRUE]

Malformed(scenario) == [scenario EXCEPT !.world.malformed = TRUE]

\* A run: the request, typeof params.query, the page and the world.  The
\* query of a request is text; NotText makes it a value of another type that
\* prints as that text: a number, which has no method toLowerCase, or a
\* String object, which has one.
Scenario(params, page, world) ==
  [params |-> params, typeofQuery |-> "string", page |-> page, world |-> world]

NotText(scenario, type) == [scenario EXCEPT !.typeofQuery = type]

Scenarios ==
  {\* one source, four sort methods; the API answers every call
   Scenario(Params("rust", "keyword", "relevance", 5, 2), 2,
            World({62}, FALSE, {"ok"}, TRUE, TRUE)),
   \* the same; no GET succeeds, token exchanges may fail
   Scenario(Params("rust", "keyword", "relevance", 5, 2), 2,
            World({60, 62}, TRUE, {"429", "401", "network"}, TRUE, FALSE)),
   \* three sources
   Scenario(Params("rust", "all", "upvotes", 0, 1), 1,
            World({62}, FALSE, {"ok"}, FALSE, FALSE)),
   \* three sources; every token exchange fails
   Scenario(Params("rust", "all", "upvotes", 0, 1), 1,
            World({}, TRUE, {}, FALSE, FALSE)),
   \* the query names the source; no comment has the upvotes asked for
   Scenario(Params("rust", "subreddit", "timestamp", 51, 2), 1,
            World({62}, FALSE, {"ok"}, FALSE, TRUE)),
   \* one source, two sort methods; a GET succeeds or fails
   Scenario(Params("rust", "subreddit", "upvotes", 0, 2), 1,
            World({62}, FALSE, {"ok", "network"}, FALSE, FALSE)),
   \* the query is the number 42, or a String object
   NotText(Scenario(Params("42", "keyword", "relevance", 5, 2), 1,
                    World({62}, FALSE, {"ok"}, FALSE, FALSE)), "number"),
   NotText(Scenario(Params("rust", "keyword", "relevance", 5, 2), 1,
                    World({62}, FALSE, {"ok"}, FALSE, FALSE)), "object"),
   \* one source, two sort methods, listings of four posts: two chunks
   Crowded(Scenario(Params("rust", "subreddit", "upvotes", 0, 7), 1,
                    World({62}, FALSE, {"ok"}, FALSE, FALSE))),
   \* one source, two sort methods; a comment may lack its created_utc
   Malformed(Scenario(Params("rust", "subreddit", "upvotes", 0, 2), 1,
                      World({62}, FALSE, {"ok"}, FALSE, FALSE)))}

\* The ways the query of the request is typed.
QueryVariants(query) == IF query = "42" THEN {query} ELSE {query, "Rust"}

Post(kind, id) == [kind |-> kind, id |-> id]

SearchItem(id, author, body, subreddit, ups, created, awards) ==
  [kind |-> "t1", hasData |-> TRUE, id |-> id, author |-> author, body |-> body,
   subreddit |-> subreddit, ups |-> ups, hasCreated |-> TRUE,
   created_utc |-> created, awards |-> awards, replies |-> <<>>]

Response(shape, children, tree) ==
  [shape |-> shape, children |-> children, tree |-> tree]

TreeA ==
  [nodes |-> <<Node("t1", "c1", "ann", "Rust is fast, rust is safe", 50, 0, 1, <<2>>),
               Node("t1", "c2", "rusty", "go go", 5, 0, 0, <<>>)>>,
   roots |-> <<1>>]

TreeB ==
  [nodes |-> <<Node("t1", "c2", "rusty", "go go", 5, 0, 0, <<>>),
               Node("t1", "c3", "bob", "I like Rust", 9, -90000, 0, <<>>),
               Node("t1", "c3", "bob", "I like Rust", 9, -90000, 0, <<>>)>>,
   roots |-> <<1, 2, 3>>]

ListingResponses(rich) ==
  {Response("listing", <<Post("t3", "p1"), Post("t3", "p2")>>, NoTree)}
  \cup IF rich
         THEN {Response("listing", <<Post("more", "m1"), Post("t3", "p1")>>, NoTree),
               Response("other", <<>>, NoTree)}
         ELSE {}

ThreadResponses(rich) ==
  {Response("thread", <<>>, TreeA)}
  \cup IF rich
         THEN {Response("thread", <<>>, TreeB), Response("other", <<>>, NoTree)}
         ELSE {}

SearchResponses(rich) ==
  {Response("listing",
            <<SearchItem("c1", "ann", "Rust is fast, rust is safe", "rust", 50, 0, 1),
              SearchItem("c4", "[deleted]", "rust", "rust", 7, 0, 0),
              SearchItem("c5", "cy", "Rust again", "all", 20, 0, 0)>>, NoTree)}

ResponsesFor(url, rich) ==
  CASE url = "listing" -> ListingResponses(rich)
    [] url = "thread" -> ThreadResponses(rich)
    [] OTHER -> SearchResponses(rich)

\* A thread whose second comment has no created_utc.
TreeC ==
  [nodes |-> <<Node("t1", "c1", "ann", "Rust is fast, rust is safe", 50, 0, 1, <<2>>),
               NoCreated(Node("t1", "c6", "dee", "rust never sleeps", 3, 0, 0, <<>>))>>,
   roots |-> <<1>>]

\* The responses of a world whose comments may lack created_utc: of the
\* items of the comment search, the second is there already when the first
\* is merged, and the building of the fourth throws.
MalformedResponses(url) ==
  IF url = "thread"
    THEN {Response("thread", <<>>, TreeA), Response("thread", <<>>, TreeC)}
    ELSE {Response("listing",
            <<SearchItem("c1", "ann", "Rust is fast, rust is safe", "rust", 50, 0, 1),
              NoCreated(SearchItem("c1", "ann", "Rust is fast, rust is safe",
                                   "rust", 50, 0, 1)),
              SearchItem("c5", "cy", "Rust again", "all", 20, 0, 0),
              NoCreated(SearchItem("c7", "eve", "rust", "rust", 4, 0, 0)),
              SearchItem("c8", "flo", "rust", "rust", 6, 0, 0)>>, NoTree)}

CrowdedListing ==
  Response("listing",
           <<Post("t3", "p1"), Post("t3", "p2"), Post("t3", "p3"), Post("t3", "p4")>>,
           NoTree)

\* The responses of the world to a GET of the url.
ResponsesIn(url, world) ==
  IF url = "listing" /\ world.crowded THEN {CrowdedListing}
  ELSE IF url # "listing" /\ world.malformed THEN MalformedResponses(url)
  ELSE ResponsesFor(url, world.rich)

SearchInit ==
  /\ now = 0
  /\ cache = <<>>
  /\ cacheObs = NoObs
  /\ cacheHist = NoHist
  /\ accessToken = Null
  /\ tokenExpiration = 0
  /\ tokenRetryCount = 0
  /\ tokenHist = NoTokenHist
  /\ api = <<>>
  /\ exIn = NoExtractIn
  /\ exOut = NoExtractOut
  /\ \E base \in Scenarios : search = [NoSearch EXCEPT !.base = base]
  /\ searchHist = NoSearchHist
  /\ runs = NoRuns
  /\ rankIn = NoRankIn
  /\ rankOut = NoRankOut

\* One step of the call of task t, as the world allows.
SearchCallStep(t) ==
  LET world == search.base.world
  IN \/ BackoffDone(t)
     \/ \E e \in world.expiresIn : ExchangeOk(t, "tokA", e)
     \/ world.exchangeFails /\ ExchangeFail(t)
     \/ "ok" \in world.gets /\ \E data \in ResponsesIn(api[t].url, world) : GetOk(t, data)
     \/ "429" \in world.gets /\ Get429(t)
     \/ Delay429Done(t)
     \/ "401" \in world.gets /\ Get401(t)
     \/ "network" \in world.gets /\ GetFail(t, "network")

SearchTick == HarvestOver /\ Tick(1, SearchMaxNow)

SearchNext ==
  \/ \E q \in QueryVariants(search.base.params.query) :
       \E picks \in PickChoices(SearchTermsOf(q)) : SearchStart(q, picks)
  \/ \E t \in DOMAIN api : SearchCallStep(t)
  \/ \E s \in 1..Len(search.subs) : SubListingReturn(s)
  \/ \E s \in 1..Len(search.subs), j \in 1..chunkSize : FetchReturn(s, j)
  \/ \E s \in 1..Len(search.subs) : DelayDone(s)
  \/ TimerFire
  \/ MainSuppReturn
  \/ SearchTick

SearchSpec == SearchInit /\ [][SearchNext]_vars

\* No two entries of the list share an id.
NoDuplicateIds(seq) ==
  \A i \in 1..Len(seq), j \in 1..Len(seq) : i # j => seq[i].id # seq[j].id

(***************************************************************************)
(* C1: whatever the API answers, no two comments of the list a search      *)
(* returns share an id, and neither do two comments of the list it         *)
(* accumulates nor of a list it stores in the cache.                       *)
(***************************************************************************)
C1_NoDuplicateIds ==
  /\ NoDuplicateIds(search.out.result)
  /\ NoDuplicateIds(search.allComments)
  /\ \A i \in 1..Len(cache) : NoDuplicateIds(cache[i].results)

\* A search has returned two comments or more after its harvest had been
\* offered a comment again, by a fetch and by the direct comment search.
C1_Witness ==
  /\ search.out.kind = "miss"
  /\ search.out.dropped = {"fetch", "search"}
  /\ Len(search.out.result) >= 2

(***************************************************************************)
(* C2: a search that has harvested (it missed the cache) without one       *)
(* successful API GET, in particular one whose every outbound call failed, *)
(* returns normally, and what it returns is the fallback comments, the     *)
(* first limit of them: a list that is not empty.                          *)
(***************************************************************************)
C2_FallbackWhenAllFail ==
  /\ search.out.kind \in {"none", "hit", "miss", "caught"}
  /\ (search.out.kind = "miss" /\ ~search.out.getOk) =>
       /\ search.out.result = SliceTo(mockComments, search.params.limit)
       /\ Len(search.out.result) >= 1

\* A search has returned the fallback comments after the five calls of its
\* harvest have all failed at the token exchange: the 4th failure was the
\* terminal one, the 5th is counted anew.
C2_Witness ==
  /\ search.out.kind = "miss"
  /\ ~search.out.getOk
  /\ HarvestOver
  /\ accessToken = Null
  /\ tokenHist.termLen = 4
  /\ tokenRetryCount = 1
  /\ Len(search.subreddits) = 1
  /\ search.out.result = SubSeq(mockComments, 1, 2)

\* The two requests have the same fields, but for the case of the letters of
\* the query, and the same page.
SameButCase(params1, page1, params2, page2) ==
  /\ toLowerCase(params1.query) = toLowerCase(params2.query)
  /\ [params1 EXCEPT !.query = ""] = [params2 EXCEPT !.query = ""]
  /\ page1 = page2

\* Requests around the one searched: they differ from it in the query, in its
\* case only or not, and in any of the other fields and the page.
KeyProbes ==
  {[params |-> [query |-> q, filterType |-> f, timeFrame |-> tf, sortBy |-> sb,
                minUpvotes |-> mu, limit |-> lim],
    page |-> pg] :
     q \in {"rust", "Rust", "rusty"}, f \in {"keyword", "all"},
     tf \in {"week", "day"}, sb \in {"relevance", "upvotes"},
     mu \in {5, 51}, lim \in {2, 12}, pg \in {1, 2, 12}}

(***************************************************************************)
(* C10: a search for the request of the last search that stored its list   *)
(* in the cache, the query in the same or in another letter case, started  *)
(* within ttl of that write, returns that list at once: no call is issued  *)
(* and the credential is not touched.  And the key of a request is the key *)
(* of another one exactly if the two differ in the letter case of the      *)
(* query at most.                                                          *)
(***************************************************************************)
C10_ServedFromCache ==
  [][\A q \in QueryVariants(search.base.params.query) :
       \A picks \in PickChoices(SearchTermsOf(q)) :
         LET params == [search.base.params EXCEPT !.query = q]
             page == search.base.page
         IN SearchStart(q, picks) =>
              /\ (/\ searchHist.has
                  /\ SameButCase(params, page, searchHist.params, searchHist.page)
                  /\ now - searchHist.T <= ttl)
                 => /\ search'.out.kind = "hit"
                    /\ search'.out.result = searchHist.cached
                    /\ search'.pc = "idle"
                    /\ api' = api
                    /\ UNCHANGED <<tokenVars, cache, searchHist>>
              /\ ~searchHist.has =>
                   \A probe \in KeyProbes :
                     (getCacheKey(probe.params, probe.page) = getCacheKey(params, page))
                       <=> SameButCase(probe.params, probe.page, params, page)
    ]_vars

\* A search was served the list that a search for the query in another
\* letter case had stored before.
C10_Witness ==
  /\ search.out.kind = "hit"
  /\ searchHist.has
  /\ search.out.query # searchHist.params.query
  /\ now > searchHist.T
  /\ search.out.result = searchHist.cached
  /\ Len(search.out.result) >= 2

(***************************************************************************)
(* C11 as stated: a search whose query is not text-typed fails: it raises  *)
(* an error to its caller and returns no result set, and it makes no       *)
(* outbound call.                                                          *)
(***************************************************************************)
C11_RaisesOnInvalid ==
  ~IsString(search.base.typeofQuery) =>
    /\ search.out.kind \in {"none", "raised"}
    /\ \A t \in DOMAIN api : api[t].pc = "idle"

(***************************************************************************)
(* C12 as stated: the fallback comments are returned only when the         *)
(* pipeline throws: a search that completes its harvest without throwing   *)
(* returns a ranking of the comments it has collected, possibly an empty   *)
(* one, and never the fallback comments.                                   *)
(***************************************************************************)
C12_FallbackOnlyOnThrow ==
  search.out.kind = "miss" => IdsOf(search.out.result) \subseteq search.out.collected

(***************************************************************************)
(* C12 amended: the fallback comments (their first limit) are returned     *)
(* when the pipeline throws and also when the harvest completes having     *)
(* collected no comment at all; a harvest that has collected one comment   *)
(* or more returns comments it has collected, possibly none, and never a   *)
(* fallback comment.                                                       *)
(***************************************************************************)
C12_FallbackWhenNothingCollected ==
  /\ search.out.kind = "caught" =>
       search.out.result = SliceTo(mockComments, search.base.params.limit)
  /\ (search.out.kind = "miss" /\ search.out.collected = {}) =>
       search.out.result = SliceTo(mockComments, search.params.limit)
  /\ (search.out.kind = "miss" /\ search.out.collected # {}) =>
       /\ IdsOf(search.out.result) \subseteq search.out.collected
       /\ IdsOf(search.out.result) \cap IdsOf(mockComments) = {}

\* A search has collected comments, none of which passed the ranking: it
\* has returned the empty list, which is also the list in the cache.
C12_Witness ==
  /\ search.out.kind = "miss"
  /\ search.out.collected # {}
  /\ search.out.result = <<>>
  /\ searchHist.has
  /\ searchHist.cached = <<>>

\* The list a is the beginning of the list b.
IsPrefix(a, b) == Len(a) <= Len(b) /\ SubSeq(b, 1, Len(a)) = a

\* The ids of the comments of the fetches of a chunk other than the j-th.
OtherFetchIds(res, j) ==
  UNION {IdsOf(res[k].comments) : k \in DOMAIN res \ {j}}

\* The thread fetched for the j-th post of the chunk of subreddit s is one
\* on which extractComments throws.
ExtractionThrows(s, j) ==
  /\ api[FetchTask(s, j)].pc = "ok"
  /\ api[FetchTask(s, j)].data.shape = "thread"
  /\ extractComments(api[FetchTask(s, j)].data.tree, search.subreddits[s],
                     search.subs[s].posts[search.subs[s].i + j].id).threw

(***************************************************************************)
(* C13: when the request of the posts of one sort method fails, the task   *)
(* of that subreddit goes on to its next sort method (or ends after the    *)
(* last one), and when the fetch of the comments of one post fails (its    *)
(* request fails, or the extraction of its comments throws), the           *)
(* fetch counts for no comment and its chunk goes on: in both cases the    *)
(* comments collected so far are kept, the search is not aborted and the   *)
(* other fetches and the tasks of the other subreddits are left as they    *)
(* are.                                                                    *)
(***************************************************************************)
C13_FailureContained ==
  [][/\ \A s \in 1..Len(search.subs) :
          (SubListingReturn(s) /\ api[SubTask(s)].pc = "err") =>
            /\ IF search'.pc = "idle" /\ search.pc # "idle"
                 THEN /\ search'.out.kind = "miss"
                      /\ search'.out.collected = IdsOf(search.allComments)
                 ELSE search'.allComments = search.allComments
            /\ IF search.subs[s].m < Len(sortMethods(search.subreddits[s]))
                 THEN /\ search'.subs[s].pc = "listing"
                      /\ search'.subs[s].m = search.subs[s].m + 1
                      /\ api'[SubTask(s)].pc \in {"backoff", "exchange", "get"}
                      /\ search'.pc = search.pc
                 ELSE search'.subs[s] = DoneSub
            /\ \A s2 \in 1..Len(search.subs) :
                 s2 # s => search'.subs[s2] = search.subs[s2]
            /\ \A t \in DOMAIN api \ {SubTask(s), MainTask} : api'[t] = api[t]
     /\ \A s \in 1..Len(search.subs), j \in 1..chunkSize :
          (FetchReturn(s, j)
             /\ (api[FetchTask(s, j)].pc = "err" \/ ExtractionThrows(s, j))) =>
            /\ search'.pc = search.pc
            /\ IsPrefix(search.allComments, search'.allComments)
            /\ IF search'.subs[s].pc = "chunk"
                 THEN /\ search'.allComments = search.allComments
                      /\ search'.subs[s].res[j] = [done |-> TRUE, comments |-> <<>>]
                 ELSE /\ search'.subs[s].pc = "delay"
                      /\ search.pc # "idle" =>
                           IdsOf(search'.allComments)
                             = IdsOf(search.allComments)
                                 \cup OtherFetchIds(search.subs[s].res, j)
            /\ search'.subs[s].m = search.subs[s].m
            /\ search'.subs[s].posts = search.subs[s].posts
            /\ \A s2 \in 1..Len(search.subs) :
                 s2 # s => search'.subs[s2] = search.subs[s2]
            /\ \A t \in DOMAIN api \ {FetchTask(s, j)} : api'[t] = api[t]
    ]_vars

\* A search has returned comments of its harvest, in which the request of
\* the posts of a sort method had failed and the fetch of a post had failed.
C13_Witness ==
  /\ search.out.kind = "miss"
  /\ {"listing", "fetch"} \subseteq search.out.failed
  /\ search.out.collected # {}
  /\ IdsOf(search.out.result) = search.out.collected

(***************************************************************************)
(* Ranking on its own: processCommentsWithSearchTerms is applied to a list *)
(* of up to MaxList comments, for a query, a filter type, a sort criterion *)
(* and a minimum of upvotes.  The comments are ranked two days after time  *)
(* 0: a comment is an hour old, or older than a day.                       *)
(***************************************************************************)
MaxList == 3

Comment(id, author, body, subreddit, upvotes, timestamp, awards) ==
  [id |-> id, author |-> author, body |-> body, subreddit |-> subreddit,
   upvotes |-> upvotes, timestamp |-> timestamp, awards |-> awards,
   matchScore |-> 0, score |-> Zero]

RankTime == 2 * MsPerDay
Recent == RankTime - 3600000

\* Two comments share the id "a"; "c" and "d" have the same upvotes, awards,
\* timestamp and matches.  "p" and "q" have scores that are equal as real
\* numbers, 2 log 24 + 3 log 2 = 2 log 3 + 3 log 8, and differ as doubles.
RankPool ==
  {Comment("a", "ann", "Rust rust go Go", "programming", 5, Recent, 0),
   Comment("b", "rusty", "nothing here", "golang", 50, 0, 2),
   Comment("c", "bob", "Go", "all", 20, 0, 1),
   Comment("d", "dan", "go", "all", 20, 0, 1),
   Comment("a", "ann", "plain text", "pics", 70, Recent, 3),
   Comment("p", "pat", "text", "pics", 23, 0, 1),
   Comment("q", "quinn", "text", "pics", 2, 0, 7)}

RECURSIVE ListsOver(_, _)
ListsOver(S, n) ==
  IF n = 0 THEN {<<>>}
  ELSE ListsOver(S, n - 1)
         \cup {Append(l, x) : l \in {m \in ListsOver(S, n - 1) : Len(m) = n - 1}, x \in S}

\* The query, the filter type and the minimum of upvotes of a request.
RankModes ==
  {<<"rust go", "keyword", 0>>, <<"Rust", "keyword", 10>>, <<"rust go", "all", 0>>,
   <<"", "all", 0>>, <<"", "all", 10>>}

RankSortBy == {"upvotes", "timestamp", "awards", "relevance", "newest"}

RankInputs ==
  {[op |-> "rank", comments |-> l, query |-> mode[1], filterType |-> mode[2],
    sortBy |-> sb, minUpvotes |-> mode[3]] :
     l \in ListsOver(RankPool, MaxList), mode \in RankModes, sb \in RankSortBy}

RankInit ==
  /\ now = RankTime
  /\ cache = <<>>
  /\ cacheObs = NoObs
  /\ cacheHist = NoHist
  /\ accessToken = Null
  /\ tokenExpiration = 0
  /\ tokenRetryCount = 0
  /\ tokenHist = NoTokenHist
  /\ api = <<>>
  /\ exIn = NoExtractIn
  /\ exOut = NoExtractOut
  /\ search = NoSearch
  /\ searchHist = NoSearchHist
  /\ runs = NoRuns
  /\ rankIn \in RankInputs
  /\ rankOut = NoRankOut

\* searchComments ranks the comments (lines 326 and 466-467).
DoRank ==
  /\ rankIn.op = "rank"
  /\ ~rankOut.done
  /\ rankOut' = [done |-> TRUE,
                 comments |-> processCommentsWithSearchTerms(
                                rankIn.comments, SearchTermsOf(rankIn.query),
                                rankIn.filterType, rankIn.query, rankIn.sortBy,
                                rankIn.minUpvotes, now)]
  /\ UNCHANGED <<now, cacheVars, tokenVars, tokenHist, api, exVars, searchVars, rankIn>>

RankNext == DoRank

RankSpec == RankInit /\ [][RankNext]_vars

\* The key the criterion compares.
CriterionKey(comment, criterion) ==
  CASE criterion = "upvotes" -> Whole(comment.upvotes)
    [] criterion = "timestamp" -> Whole(comment.timestamp)
    [] criterion = "awards" -> Whole(comment.awards)
    [] OTHER -> comment.score

\* The comment as it was given: without its scores.
AsGiven(comment) == [comment EXCEPT !.matchScore = 0, !.score = Zero]

\* The place of the comment in the list given.
InputPos(comment) ==
  CHOOSE i \in 1..Len(rankIn.comments) :
    /\ rankIn.comments[i] = AsGiven(comment)
    /\ \A j \in 1..(i - 1) : rankIn.comments[j] # AsGiven(comment)

UpvotesOf(comments) == [i \in 1..Len(comments) |-> comments[i].upvotes]

(***************************************************************************)
(* C14: the ranked list is ordered by the criterion asked for: upvotes,    *)
(* timestamp or awards never increase from an entry to the next, and for   *)
(* relevance or an unknown criterion the score never increases; entries of *)
(* equal key are in the order of the list given.  Upvotes 5, 50, 20 come   *)
(* out as 50, 20, 5.                                                       *)
(***************************************************************************)
C14_SortedByCriterion ==
  rankOut.done =>
    /\ \A i \in 1..(Len(rankOut.comments) - 1) :
         AtMost(CriterionKey(rankOut.comments[i + 1], rankIn.sortBy),
                CriterionKey(rankOut.comments[i], rankIn.sortBy))
    /\ \A i, j \in 1..Len(rankOut.comments) :
         (/\ i < j
          /\ CriterionKey(rankOut.comments[i], rankIn.sortBy)
               = CriterionKey(rankOut.comments[j], rankIn.sortBy))
           => InputPos(rankOut.comments[i]) < InputPos(rankOut.comments[j])
    /\ (/\ rankIn.sortBy = "upvotes"
        /\ UpvotesOf(rankIn.comments) = <<5, 50, 20>>
        /\ Len(rankOut.comments) = 3)
         => UpvotesOf(rankOut.comments) = <<50, 20, 5>>

\* Comments of upvotes 5, 50, 20 were ranked by upvotes: 50, 20, 5.
C14_Witness ==
  /\ rankOut.done
  /\ rankIn.sortBy = "upvotes"
  /\ UpvotesOf(rankIn.comments) = <<5, 50, 20>>
  /\ UpvotesOf(rankOut.comments) = <<50, 20, 5>>

\* The number of places of the text where the term stands.
Places(text, term) ==
  Cardinality({i \in 1..(Len(text) - Len(term) + 1) :
                 SubSeq(text, i, i + Len(term) - 1) = term})

\* The same, whatever the case of the text.
Occurrences(text, term) == Places(toLowerCase(text), term)

\* The sum over the terms, from the k-th on, of their occurrences in the text.
RECURSIVE SumOfOccurrences(_, _, _)
SumOfOccurrences(text, terms, k) ==
  IF k > Len(terms) THEN 0
  ELSE Occurrences(text, terms[k]) + SumOfOccurrences(text, terms, k + 1)

\* Some term stands in the text.
SomeTermIn(text, terms) == \E k \in 1..Len(terms) : Occurrences(text, terms[k]) > 0

\* The ids of the comments given that have the upvotes asked for and satisfy Keep.
GivenIds(Keep(_)) ==
  {rankIn.comments[i].id : i \in {j \in 1..Len(rankIn.comments) :
      /\ rankIn.comments[j].upvotes >= rankIn.minUpvotes
      /\ Keep(rankIn.comments[j])}}

InKeywordMode(comment) ==
  SumOfOccurrences(comment.body, SearchTermsOf(rankIn.query), 1) > 0

\* The count with its bonuses is positive: a term stands in the body, in the
\* author or in the subreddit (the phrase stands in the body only if a term does).
InAllMode(comment) ==
  \/ SomeTermIn(comment.body, SearchTermsOf(rankIn.query))
  \/ SomeTermIn(comment.author, SearchTermsOf(rankIn.query))
  \/ SomeTermIn(comment.subreddit, SearchTermsOf(rankIn.query))
  \/ (Len(rankIn.query) > 3 /\ Occurrences(comment.body, toLowerCase(rankIn.query)) > 0)

(***************************************************************************)
(* C15: in keyword mode the match count of a comment is the sum over the   *)
(* terms of the query of the occurrences of the term in the body, whatever *)
(* the case ("rust go" against "Rust rust go Go" gives 4), and the         *)
(* comments kept are those of a positive count; in all mode with a term    *)
(* the comments kept are those whose count with the author, subreddit and  *)
(* phrase bonuses is positive, and that count is written on them.          *)
(***************************************************************************)
C15_MatchCountFilter ==
  (rankOut.done /\ Len(SearchTermsOf(rankIn.query)) > 0) =>
    /\ rankIn.filterType = "keyword" =>
         /\ IdsOf(rankOut.comments) = GivenIds(InKeywordMode)
         /\ \A i \in 1..Len(rankOut.comments) :
              /\ rankOut.comments[i].matchScore
                   = SumOfOccurrences(rankOut.comments[i].body,
                                      SearchTermsOf(rankIn.query), 1)
              /\ (rankIn.query = "rust go" /\ rankOut.comments[i].body = "Rust rust go Go")
                   => rankOut.comments[i].matchScore = 4
    /\ rankIn.filterType = "all" =>
         /\ IdsOf(rankOut.comments) = GivenIds(InAllMode)
         /\ \A i \in 1..Len(rankOut.comments) :
              /\ rankOut.comments[i].matchScore > 0
              /\ rankOut.comments[i].matchScore
                   >= SumOfOccurrences(rankOut.comments[i].body,
                                       SearchTermsOf(rankIn.query), 1)

\* "rust go" in keyword mode: a comment with Rust twice and Go twice is kept
\* with the count 4, a comment with neither term is left out.
C15_Witness ==
  /\ rankOut.done
  /\ rankIn.filterType = "keyword"
  /\ rankIn.query = "rust go"
  /\ \E i \in 1..Len(rankOut.comments) :
       /\ rankOut.comments[i].body = "Rust rust go Go"
       /\ rankOut.comments[i].matchScore = 4
  /\ \E j \in 1..Len(rankIn.comments) :
       /\ rankIn.comments[j].body = "nothing here"
       /\ rankIn.comments[j].id \notin IdsOf(rankOut.comments)

(***************************************************************************)
(* Scoring on its own: calculateBaseScore or calculateScore is applied to  *)
(* a comment of up to MaxUpvotes upvotes and MaxAwards awards, an hour old *)
(* or older than a day, for a match count.                                 *)
(***************************************************************************)
MaxUpvotes == 60
MaxAwards == 12

ScoreMatchCounts == {1, 4}

ScoreInputs ==
  {[op |-> "base",
    comment |-> Comment("a", "ann", "Rust rust go Go", "programming", u, ts, a)] :
     u \in 0..MaxUpvotes, a \in 0..MaxAwards, ts \in {Recent, 0}}
  \cup
  {[op |-> "score", matchCount |-> n,
    comment |-> Comment("a", "ann", "Rust rust go Go", "programming", u, ts, a)] :
     u \in 0..MaxUpvotes, a \in 0..MaxAwards, ts \in {Recent, 0}, n \in ScoreMatchCounts}

ScoreInit ==
  /\ now = RankTime
  /\ cache = <<>>
  /\ cacheObs = NoObs
  /\ cacheHist = NoHist
  /\ accessToken = Null
  /\ tokenExpiration = 0
  /\ tokenRetryCount = 0
  /\ tokenHist = NoTokenHist
  /\ api = <<>>
  /\ exIn = NoExtractIn
  /\ exOut = NoExtractOut
  /\ search = NoSearch
  /\ searchHist = NoSearchHist
  /\ runs = NoRuns
  /\ rankIn \in ScoreInputs
  /\ rankOut = NoRankOut

\* The score of the call given, at time t.
ScoreOf(in, t) ==
  IF in.op = "base" THEN calculateBaseScore(in.comment, t)
  ELSE calculateScore(in.comment, in.matchCount, t)

DoScore ==
  /\ rankIn.op \in {"base", "score"}
  /\ ~rankOut.done
  /\ rankOut' = [done |-> TRUE, score |-> ScoreOf(rankIn, now)]
  /\ UNCHANGED <<now, cacheVars, tokenVars, tokenHist, api, exVars, searchVars, rankIn>>

ScoreNext == DoScore

ScoreSpec == ScoreInit /\ [][ScoreNext]_vars

\* The call given, for a comment of other upvotes and awards.
WithVotes(in, upvotes, awards) ==
  [in EXCEPT !.comment.upvotes = upvotes, !.comment.awards = awards]

(***************************************************************************)
(* C16: with the timestamp, the time and the match count fixed, the score  *)
(* never decreases when the upvotes grow and never decreases when the      *)
(* awards grow.                                                            *)
(***************************************************************************)
C16_ScoreMonotone ==
  rankOut.done =>
    /\ \A u \in rankIn.comment.upvotes..MaxUpvotes :
         AtMost(rankOut.score, ScoreOf(WithVotes(rankIn, u, rankIn.comment.awards), now))
    /\ \A a \in rankIn.comment.awards..MaxAwards :
         AtMost(rankOut.score, ScoreOf(WithVotes(rankIn, rankIn.comment.upvotes, a), now))

\* A comment of 9 upvotes and 1 award was scored with 4 matches; the same
\* comment with 8 upvotes, or with no award, has a smaller score.
C16_Witness ==
  /\ rankOut.done
  /\ rankIn.op = "score"
  /\ rankIn.matchCount = 4
  /\ rankIn.comment.upvotes = 9
  /\ rankIn.comment.awards = 1
  /\ Less(ScoreOf(WithVotes(rankIn, 8, 1), now), rankOut.score)
  /\ Less(ScoreOf(WithVotes(rankIn, 9, 0), now), rankOut.score)

(***************************************************************************)
(* C17 as stated: a search served from the cache returns the comments that *)
(* the search that filled the cache returned to its caller.                *)
(***************************************************************************)
C17_HitReturnsWhatMissReturned ==
  (search.out.kind = "hit" /\ searchHist.has) =>
    search.out.result = searchHist.returned

(***************************************************************************)
(* C18 as stated: the comments of the fetches that settle after the 8 s    *)
(* timer has ended the race are discarded: they are neither in the list    *)
(* the search returns nor in the list it stores in the cache, also when    *)
(* the search awaits the direct comment search after the timer.            *)
(***************************************************************************)
C18_LateCommentsDiscarded ==
  search.out.kind = "miss" =>
    /\ IdsOf(search.out.result) \cap search.out.late = {}
    /\ IdsOf(searchHist.cached) \cap search.out.late = {}

(***************************************************************************)
(* C19 as stated: a token stored with its expiry in the future remains     *)
(* stored until it expires or a 401 clears it (or a later successful       *)
(* exchange replaces it): the failure of the exchange of another caller    *)
(* does not discard it.                                                    *)
(***************************************************************************)
C19_ValidTokenRemains ==
  [][(/\ TokenValid(accessToken, tokenExpiration, now)
      /\ ~ \E p \in Callers : Get401(p)
      /\ ~ \E p \in Callers, tok \in Tokens, e \in ExpiresIn : ExchangeOk(p, tok, e))
       => UNCHANGED <<accessToken, tokenExpiration>>
    ]_vars

(***************************************************************************)
(* C20: no guard makes a caller wait for the exchange of another: a call   *)
(* that finds no valid token, with the failure counter at 0, starts its    *)
(* own exchange whatever exchanges are in flight, and these stay in        *)
(* flight; every exchange that succeeds stores its token and its expiry    *)
(* over what is stored.                                                    *)
(***************************************************************************)
C20_NoSingleFlight ==
  [][\A p \in Callers :
       /\ (/\ api[p].pc = "idle"
           /\ api'[p].pc # "idle"
           /\ ~TokenValid(accessToken, tokenExpiration, now)
           /\ tokenRetryCount = 0)
            => /\ api'[p].pc = "exchange"
               /\ \A q \in Callers \ {p} : api'[q] = api[q]
       /\ (api[p].pc = "exchange" /\ api'[p].pc = "get")
            => /\ accessToken' = api'[p].bearer
               /\ accessToken' \in Tokens
               /\ \E e \in ExpiresIn : tokenExpiration' = ExpirationOf(now, e)
    ]_vars

\* Two exchanges were in flight together: one has stored a token that is
\* valid, and its caller uses it, while the other is still in flight.
C20_Witness ==
  /\ TokenValid(accessToken, tokenExpiration, now)
  /\ \E p, q \in Callers :
       /\ p # q
       /\ api[p].pc = "get"
       /\ api[p].bearer = accessToken
       /\ ~tokenHist.reused
       /\ api[q].pc = "exchange"

(***************************************************************************)
(* C21: every failed exchange adds one to the failure counter; if the      *)
(* counter is then at most 3 the call throws the transient error, leaves   *)
(* the counter there and clears the stored token and expiry; if it is      *)
(* above 3 the call resets the counter to 0 and throws the terminal error. *)
(* Counted from counter 0, the failures 1 to 3 are transient and the 4th   *)
(* is terminal.                                                            *)
(***************************************************************************)
C21_FailedExchange ==
  [][\A p \in Callers :
       (api[p].pc = "exchange" /\ api'[p].pc = "err") =>
         IF tokenRetryCount + 1 <= 3
           THEN /\ api'[p].err = "auth_transient"
                /\ tokenRetryCount' = tokenRetryCount + 1
                /\ accessToken' = Null
                /\ tokenExpiration' = 0
                /\ tokenHist'.epFails \in 1..3
           ELSE /\ api'[p].err = "auth_terminal"
                /\ tokenRetryCount' = 0
                /\ tokenHist.epFails = 3
    ]_vars

\* An exchange has failed for the third time in a row: the call has thrown
\* the transient error, the counter is 3 and no token is stored.
C21_Witness ==
  \E p \in Callers :
    /\ api[p].pc = "err"
    /\ api[p].err = "auth_transient"
    /\ tokenRetryCount = 3
    /\ tokenHist.epFails = 3
    /\ accessToken = Null
    /\ tokenExpiration = 0

(***************************************************************************)
(* C22: the backoff is slept at the start of an attempt, never inside the  *)
(* failing call: a call that enters getRedditAccessToken without a valid   *)
(* token, the failure counter being c, issues the exchange at once if      *)
(* c = 0 and otherwise sleeps min(1000 * 2^c, 30000) ms and then issues    *)
(* it; an exchange that fails throws at once, without a sleep.             *)
(***************************************************************************)
C22_BackoffAtStart ==
  [][\A p \in Callers :
       /\ (api[p].pc \notin {"backoff", "exchange"}
             /\ api'[p].pc \in {"backoff", "exchange"})
            => IF tokenRetryCount = 0
                 THEN api'[p].pc = "exchange"
                 ELSE /\ api'[p].pc = "backoff"
                      /\ api'[p].wait = Min(1000 * Pow2(tokenRetryCount), 30000)
       /\ (api[p].pc = "backoff" /\ api'[p] # api[p]) => api'[p].pc = "exchange"
       /\ (api[p].pc = "exchange" /\ api'[p] # api[p])
            => /\ api'[p].pc \in {"get", "err"}
               /\ api'[p].wait = 0
    ]_vars

\* After two failed exchanges a call sleeps 4000 ms before its exchange.
C22_Witness ==
  \E p \in Callers :
    /\ api[p].pc = "backoff"
    /\ api[p].wait = 4000
    /\ tokenRetryCount = 2

(***************************************************************************)
(* C23: whenever the event loop is between two handlers, whatever the      *)
(* interleaving of the callers, the failure counter is 0, 1, 2 or 3; the   *)
(* backoff a call sleeps is then 2000, 4000 or 8000 ms (none when the      *)
(* counter is 0), and never the cap of 30000 ms.                           *)
(***************************************************************************)
C23_CounterRange ==
  /\ tokenRetryCount \in {0, 1, 2, 3}
  /\ \A p \in Callers :
       api[p].pc = "backoff" => api[p].wait \in {2000, 4000, 8000}
  /\ \A p \in Callers : api[p].wait < 30000

\* With the counter at 3 a call sleeps 8000 ms while the exchange of
\* another caller is in flight.
C23_Witness ==
  /\ tokenRetryCount = 3
  /\ \E p, q \in Callers :
       /\ api[p].pc = "backoff"
       /\ api[p].wait = 8000
       /\ api[q].pc = "exchange"

(***************************************************************************)
(* C24: when the GET of attempt a is answered 429, the client sleeps       *)
(* 2^a * 1000 ms if a < 3 (2000 ms after attempt 1, 4000 ms after attempt  *)
(* 2) and then retries as attempt a + 1; if a = 3 it throws the            *)
(* rate-limited error and issues no further GET.                           *)
(***************************************************************************)
C24_RateLimited ==
  [][\A p \in Callers :
       /\ Get429(p) =>
            IF api[p].attempt < 3
              THEN /\ api'[p].pc = "delay429"
                   /\ api'[p].wait = (IF api[p].attempt = 1 THEN 2000 ELSE 4000)
                   /\ api'[p].attempt = api[p].attempt
                   /\ api'[p].gets = api[p].gets
              ELSE /\ api[p].attempt = 3
                   /\ api'[p].pc = "err"
                   /\ api'[p].err = "rate_limited"
                   /\ api'[p].gets = api[p].gets
       /\ (api[p].pc = "delay429" /\ api'[p] # api[p])
            => /\ api'[p].attempt = api[p].attempt + 1
               /\ api'[p].pc \in {"get", "backoff", "exchange"}
       /\ (api[p].pc = "err" /\ api'[p] # api[p]) => api'[p] = IdleCall
    ]_vars

\* The second GET of a call was answered 429: the client sleeps 4000 ms.
C24_Witness ==
  \E p \in Callers :
    /\ api[p].pc = "delay429"
    /\ api[p].attempt = 2
    /\ api[p].gets = 2
    /\ api[p].wait = 4000

(***************************************************************************)
(* C25: when a GET is answered 401 the stored credential is cleared (no    *)
(* token, expiry 0), on the last attempt too, so that a call that then     *)
(* enters getRedditAccessToken exchanges a token; the request is retried   *)
(* at once as attempt + 1 if attempts remain, and otherwise the error is   *)
(* thrown to the caller.                                                   *)
(***************************************************************************)
C25_Unauthorized ==
  [][\A p \in Callers :
       /\ Get401(p) =>
            /\ accessToken' = Null
            /\ tokenExpiration' = 0
            /\ IF api[p].attempt < 3
                 THEN /\ api'[p].attempt = api[p].attempt + 1
                      /\ api'[p].gets = api[p].gets
                      /\ IF tokenRetryCount = 0
                           THEN api'[p].pc = "exchange"
                           ELSE api'[p].pc = "backoff"
                 ELSE /\ api'[p].pc = "err"
                      /\ api'[p].err = "http_401"
       /\ (api[p].pc = "idle" /\ api'[p].pc # "idle" /\ accessToken = Null)
            => api'[p].pc \in {"exchange", "backoff"}
    ]_vars

\* The third GET of a call was answered 401: the call has failed and the
\* token that its exchange had stored is cleared.
C25_Witness ==
  \E p \in Callers :
    /\ api[p].pc = "err"
    /\ api[p].err = "http_401"
    /\ api[p].attempt = 3
    /\ api[p].gets = 3
    /\ accessToken = Null
    /\ tokenExpiration = 0

(***************************************************************************)
(* C26: a failure of redditApiRequest that is no 429 and no 401 response   *)
(* (another status, a timeout or network error without a response, or a    *)
(* failure of getRedditAccessToken inside the request) is thrown to the    *)
(* caller after that one attempt: no retry, no further GET, and the        *)
(* client leaves the stored credential as it is.                           *)
(***************************************************************************)
C26_OtherFailurePropagates ==
  [][\A p \in Callers :
       /\ (\E kind \in FailKinds : GetFail(p, kind)) =>
            /\ api'[p].pc = "err"
            /\ api'[p].err \in {"http_other", "network"}
            /\ api'[p].attempt = api[p].attempt
            /\ api'[p].gets = api[p].gets
            /\ UNCHANGED <<accessToken, tokenExpiration, tokenRetryCount>>
       /\ ExchangeFail(p) =>
            /\ api'[p].pc = "err"
            /\ api'[p].err \in {"auth_transient", "auth_terminal"}
            /\ api'[p].attempt = api[p].attempt
            /\ api'[p].gets = api[p].gets
       /\ (api[p].pc = "err" /\ api[p].err \notin {"rate_limited", "http_401"})
            => api'[p] \in {api[p], IdleCall}
    ]_vars

\* The first GET of a call failed with another status: the call has failed
\* after one attempt, and the token it used is still stored and valid.
C26_Witness ==
  \E p \in Callers :
    /\ api[p].pc = "err"
    /\ api[p].err = "http_other"
    /\ api[p].attempt = 1
    /\ api[p].gets = 1
    /\ TokenValid(accessToken, tokenExpiration, now)

\* The fetches of subreddit s that have not settled.
FetchesInFlight(s) == {j \in 1..chunkSize : Pending(FetchTask(s, j))}

(***************************************************************************)
(* C27: the chunks of a subreddit run one after the other: a fetch of the  *)
(* comments of a post starts only when no fetch of the subreddit is in     *)
(* flight or unread, with the listing or when the 500 ms delay after the   *)
(* previous chunk is over, and it belongs to the next three posts; the     *)
(* fetches in flight are those of the chunk awaited, at most 3.            *)
(***************************************************************************)
C27_ChunksInSequence ==
  [][\A s \in 1..Len(search.subs) :
       /\ Cardinality(FetchesInFlight(s)) <= 3
       /\ \A j \in FetchesInFlight(s) :
            /\ search.subs[s].pc = "chunk"
            /\ j <= Len(search.subs[s].res)
            /\ ~search.subs[s].res[j].done
       /\ \A j \in 1..chunkSize :
            (/\ FetchTask(s, j) \in DOMAIN api'
             /\ api[FetchTask(s, j)].pc = "idle"
             /\ api'[FetchTask(s, j)].pc # "idle")
              => /\ \A k \in 1..chunkSize : api[FetchTask(s, k)].pc = "idle"
                 /\ search.subs[s].pc \in {"listing", "delay"}
                 /\ search'.subs[s].pc = "chunk"
                 /\ search'.subs[s].i =
                      (IF search.subs[s].pc = "delay" THEN search.subs[s].i + 3 ELSE 0)
                 /\ search'.subs[s].i + j <= Len(search'.subs[s].posts)
    ]_vars

\* The second chunk of a listing of four posts is awaited: its one fetch is
\* in flight, and comments of the first chunk are there.
C27_Witness ==
  \E s \in 1..Len(search.subs) :
    /\ search.subs[s].pc = "chunk"
    /\ search.subs[s].i = 3
    /\ Len(search.subs[s].posts) = 4
    /\ FetchesInFlight(s) = {1}
    /\ Len(search.allComments) > 0

(***************************************************************************)
(* C28: the direct comment search is issued at most once in a harvest,     *)
(* when the race of the subreddit tasks with the timer is over, if and     *)
(* only if fewer than 2 * limit comments are collected then and the query  *)
(* has a term; when it fails the search goes on to rank the comments       *)
(* collected, which the failure leaves as they are.  (When the call        *)
(* succeeds and the building of one of its comments throws, the comments   *)
(* collected are kept as well, before those merged until then.)            *)
(***************************************************************************)
C28_DirectSearchOnce ==
  [][/\ (search.pc = "racing" /\ search'.pc # "racing") =>
          /\ search'.pc = "supp"
               <=> (/\ Len(search.allComments) < 2 * search.params.limit
                    /\ Len(search.searchTerms) > 0)
          /\ search'.pc = "supp" =>
               /\ search'.allComments = search.allComments
               /\ api[MainTask].pc = "idle"
               /\ Pending(MainTask)'
               /\ api'[MainTask].url = "search"
     /\ (search.pc # "racing" /\ MainTask \in DOMAIN api /\ MainTask \in DOMAIN api'
           /\ api[MainTask].pc = "idle")
          => api'[MainTask].pc = "idle"
     /\ search.pc = "supp" => search'.pc \in {"supp", "idle"}
     /\ (search.pc = "supp" /\ api[MainTask].pc = "err" /\ search'.pc = "idle") =>
          /\ search'.out.kind = "miss"
          /\ search'.out.collected = IdsOf(search.allComments)
          /\ "search" \in search'.out.failed
     /\ (search.pc = "supp" /\ search'.pc = "idle"
           /\ "merge" \in search'.out.failed) =>
          /\ search'.out.kind = "miss"
          /\ IdsOf(search.allComments) \subseteq search'.out.collected
    ]_vars

\* The direct comment search of a harvest has failed: the search has
\* returned comments of those that the subreddit tasks had collected.
C28_Witness ==
  /\ search.out.kind = "miss"
  /\ "search" \in search.out.failed
  /\ search.out.collected # {}
  /\ IdsOf(search.out.result) \subseteq search.out.collected
  /\ search.out.result # <<>>

(***************************************************************************)
(* The choice of the subreddits on its own: SelectSubreddits is applied to *)
(* a request, a page and the random choices of one subreddit per topic.    *)
(***************************************************************************)
SelectQueries == {"", "  ", " Rust ", "s", "nba news", "programming"}

\* The random choices that the code makes for the request: none unless the
\* topics are consulted.
SelectPicks(filterType, query, page) ==
  IF (filterType = "subreddit" /\ trim(query) # "") \/ page # 1
    THEN {<<1, 1, 1, 1, 1>>}
    ELSE PickChoices(SearchTermsOf(query))

SelectInputs ==
  {[op |-> "select", params |-> Params(in[1], in[2], "relevance", 0, 2),
    page |-> in[3], picks |-> picks] :
     in \in SelectQueries \X {"subreddit", "keyword", "all"} \X {1, 2},
     picks \in UNION {SelectPicks(x[2], x[1], x[3]) :
                        x \in SelectQueries \X {"subreddit", "keyword", "all"} \X {1, 2}}}

SelectInit ==
  /\ now = 0
  /\ cache = <<>>
  /\ cacheObs = NoObs
  /\ cacheHist = NoHist
  /\ accessToken = Null
  /\ tokenExpiration = 0
  /\ tokenRetryCount = 0
  /\ tokenHist = NoTokenHist
  /\ api = <<>>
  /\ exIn = NoExtractIn
  /\ exOut = NoExtractOut
  /\ search = NoSearch
  /\ searchHist = NoSearchHist
  /\ runs = NoRuns
  /\ rankIn \in {in \in SelectInputs :
                   in.picks \in SelectPicks(in.params.filterType, in.params.query, in.page)}
  /\ rankOut = NoRankOut

\* searchComments determines the subreddits to search (lines 326-364).
DoSelect ==
  /\ rankIn.op = "select"
  /\ ~rankOut.done
  /\ rankOut' = [done |-> TRUE,
                 subreddits |-> SelectSubreddits(rankIn.params, rankIn.page,
                                  SearchTermsOf(rankIn.params.query), rankIn.picks)]
  /\ UNCHANGED <<now, cacheVars, tokenVars, tokenHist, api, exVars, searchVars, rankIn>>

SelectNext == DoSelect

SelectSpec == SelectInit /\ [][SelectNext]_vars

\* The elements of a sequence.
Range(seq) == {seq[i] : i \in 1..Len(seq)}

(***************************************************************************)
(* C29: for the filter type subreddit and a query that is not blank the    *)
(* subreddits are the trimmed query alone; otherwise they contain "all",   *)
(* contain "popular" and "trending" exactly on page 1, contain at most one *)
(* subreddit of each topic, and only of a topic that a term matches and    *)
(* only on page 1, and nothing else, without duplicates: one subreddit on  *)
(* another page, 3 to 8 on page 1.                                         *)
(***************************************************************************)
C29_SourceSelection ==
  rankOut.done =>
    IF rankIn.params.filterType = "subreddit" /\ trim(rankIn.params.query) # ""
      THEN /\ rankOut.subreddits = <<trim(rankIn.params.query)>>
           /\ rankIn.params.query = " Rust " => rankOut.subreddits = <<"Rust">>
      ELSE /\ "all" \in Range(rankOut.subreddits)
           /\ "popular" \in Range(rankOut.subreddits) <=> rankIn.page = 1
           /\ "trending" \in Range(rankOut.subreddits) <=> rankIn.page = 1
           /\ \A k \in 1..Len(topics) :
                /\ Cardinality(Range(rankOut.subreddits) \cap Range(topics[k])) <= 1
                /\ Range(rankOut.subreddits) \cap Range(topics[k]) # {}
                     => /\ rankIn.page = 1
                        /\ TopicMatches(topics[k], SearchTermsOf(rankIn.params.query))
           /\ Range(rankOut.subreddits) \subseteq
                {"all", "popular", "trending"} \cup UNION {Range(topics[k]) : k \in 1..Len(topics)}
           /\ Cardinality(Range(rankOut.subreddits)) = Len(rankOut.subreddits)
           /\ rankIn.page # 1 => Len(rankOut.subreddits) = 1
           /\ rankIn.page = 1 => Len(rankOut.subreddits) \in 3..8

\* The term "s" is part of a related term of every topic: on page 1 eight
\* subreddits are chosen.
C29_Witness ==
  /\ rankOut.done
  /\ rankIn.page = 1
  /\ rankIn.params.query = "s"
  /\ Len(rankOut.subreddits) = 8

(***************************************************************************)
(* The bonuses of all mode: processCommentsWithSearchTerms is applied in   *)
(* all mode to lists of comments whose author and subreddit names contain  *)
(* the terms of the query at various places.                               *)
(***************************************************************************)
BonusPool ==
  {Comment("f", "rust", "x", "rust", 3, 0, 0),
   Comment("g", "gopher", "go rust", "rustlang", 4, 0, 0),
   Comment("h", "bob", "plain", "golang", 1, 0, 0),
   Comment("i", "xrust", "rust", "rusty-rust", 2, 0, 0)}

BonusInputs ==
  {[op |-> "rank", comments |-> l, query |-> q, filterType |-> "all",
    sortBy |-> sb, minUpvotes |-> 0] :
     l \in ListsOver(BonusPool, MaxList), q \in {"rust", "rust go"}, sb \in RankSortBy}

BonusInit ==
  /\ now = RankTime
  /\ cache = <<>>
  /\ cacheObs = NoObs
  /\ cacheHist = NoHist
  /\ accessToken = Null
  /\ tokenExpiration = 0
  /\ tokenRetryCount = 0
  /\ tokenHist = NoTokenHist
  /\ api = <<>>
  /\ exIn = NoExtractIn
  /\ exOut = NoExtractOut
  /\ search = NoSearch
  /\ searchHist = NoSearchHist
  /\ runs = NoRuns
  /\ rankIn \in BonusInputs
  /\ rankOut = NoRankOut

BonusSpec == BonusInit /\ [][RankNext]_vars

\* The count of all mode with independent bonuses: per term, from the k-th
\* on, its occurrences in the body, 2 if it is in the author and 3 if it is
\* in the subreddit.
RECURSIVE IndependentCount(_, _, _)
IndependentCount(comment, terms, k) ==
  IF k > Len(terms) THEN 0
  ELSE Occurrences(comment.body, terms[k])
         + (IF Occurrences(comment.author, terms[k]) > 0 THEN 2 ELSE 0)
         + (IF Occurrences(comment.subreddit, terms[k]) > 0 THEN 3 ELSE 0)
         + IndependentCount(comment, terms, k + 1)

\* 10 when the query, longer than 3 characters, stands in the body.
PhraseBonus(comment, query) ==
  IF Len(query) > 3 /\ Occurrences(comment.body, toLowerCase(query)) > 0 THEN 10 ELSE 0

(***************************************************************************)
(* C30 as stated: in all mode the match count of a comment is, summed over *)
(* the terms, the occurrences of the term in the body, plus 2 if the term  *)
(* is in the author, plus 3 if it is in the subreddit, the two bonuses     *)
(* being independent (with the bonus of the phrase where it applies); so   *)
(* the count depends on the comment and the query alone, not on the        *)
(* comments scored before it.                                              *)
(***************************************************************************)
C30_IndependentBonuses ==
  (rankOut.done /\ rankIn.filterType = "all" /\ Len(SearchTermsOf(rankIn.query)) > 0) =>
    \A i \in 1..Len(rankOut.comments) :
      rankOut.comments[i].matchScore
        = IndependentCount(rankOut.comments[i], SearchTermsOf(rankIn.query), 1)
            + PhraseBonus(rankOut.comments[i], rankIn.query)

(***************************************************************************)
(* The minimum of upvotes: processCommentsWithSearchTerms is applied with  *)
(* a minimum of 10, 20 or 21 upvotes in every filter mode (keyword, all    *)
(* with and without terms, subreddit, author, and a filter type the code   *)
(* does not know) and for every sort criterion.                            *)
(***************************************************************************)
FloorModes ==
  {<<"rust go", "keyword", 10>>, <<"go", "all", 21>>, <<"", "all", 20>>,
   <<"ALL", "subreddit", 20>>, <<"an", "author", 10>>, <<"go", "latest", 10>>}

FloorInputs ==
  {[op |-> "rank", comments |-> l, query |-> mode[1], filterType |-> mode[2],
    sortBy |-> sb, minUpvotes |-> mode[3]] :
     l \in ListsOver(RankPool, MaxList), mode \in FloorModes, sb \in RankSortBy}

FloorInit ==
  /\ now = RankTime
  /\ cache = <<>>
  /\ cacheObs = NoObs
  /\ cacheHist = NoHist
  /\ accessToken = Null
  /\ tokenExpiration = 0
  /\ tokenRetryCount = 0
  /\ tokenHist = NoTokenHist
  /\ api = <<>>
  /\ exIn = NoExtractIn
  /\ exOut = NoExtractOut
  /\ search = NoSearch
  /\ searchHist = NoSearchHist
  /\ runs = NoRuns
  /\ rankIn \in FloorInputs
  /\ rankOut = NoRankOut

FloorSpec == FloorInit /\ [][RankNext]_vars

(***************************************************************************)
(* C31: every comment in the output of processCommentsWithSearchTerms has  *)
(* at least minUpvotes upvotes, in every filter mode and for every sort    *)
(* criterion; a comment below the minimum is dropped although its mode     *)
(* would keep it.  Without search terms in all mode, where the mode keeps  *)
(* every comment, the ids of the output are the ids of the comments given  *)
(* that have at least minUpvotes upvotes.                                  *)
(***************************************************************************)
C31_MinUpvotesFloor ==
  rankOut.done =>
    /\ \A i \in 1..Len(rankOut.comments) :
         rankOut.comments[i].upvotes >= rankIn.minUpvotes
    /\ (rankIn.query = "" /\ rankIn.filterType = "all")
         => IdsOf(rankOut.comments)
              = {rankIn.comments[i].id :
                   i \in {j \in 1..Len(rankIn.comments) :
                            rankIn.comments[j].upvotes >= rankIn.minUpvotes}}

\* In author mode with a minimum of 10, the comment of "ann" with 5 upvotes
\* was dropped and the comment of "dan" with 20 upvotes was kept.
C31_Witness ==
  /\ rankOut.done
  /\ rankIn.filterType = "author"
  /\ rankIn.minUpvotes = 10
  /\ \E i \in 1..Len(rankIn.comments) :
       rankIn.comments[i].author = "ann" /\ rankIn.comments[i].upvotes = 5
  /\ \E i \in 1..Len(rankOut.comments) : rankOut.comments[i].upvotes = 20
  /\ \A i \in 1..Len(rankOut.comments) : rankOut.comments[i].upvotes # 5

\* The ids of the nodes of kind t1 that carry data.
CommentNodeIds(tree) ==
  {tree.nodes[i].id : i \in {j \in DOMAIN tree.nodes : IsCommentNode(tree.nodes[j])}}

(***************************************************************************)
(* C32 as stated: no comment that extractComments emits has the body       *)
(* "[deleted]" or "[removed]" or the author "[deleted]", and every comment *)
(* emitted came from a node of kind t1.  (The items of the comment search  *)
(* are tested and built by the same statements.)                           *)
(***************************************************************************)
C32_NoSentinelEmitted ==
  exOut.done =>
    \A i \in 1..Len(exOut.comments) :
      /\ exOut.comments[i].body \notin {"[deleted]", "[removed]"}
      /\ exOut.comments[i].author # "[deleted]"
      /\ exOut.comments[i].id \in CommentNodeIds(exIn.data)

(***************************************************************************)
(* C33: get(k) on a key whose entry is older than ttl removes that entry   *)
(* (the size decreases by one) and leaves the other entries as they are,   *)
(* in their order; get(k) on a key with a fresh entry, or on a key with no *)
(* entry, leaves the entries and their timestamps unchanged.               *)
(***************************************************************************)
C33_GetFrame ==
  [][\A k \in CacheKeys :
       CacheGetOp(k)
         => LET i == CacheIndex(cache, k)
            IN IF i # 0 /\ now - cache[i].timestamp > ttl
                 THEN /\ SearchCache_size(cache') = SearchCache_size(cache) - 1
                      /\ k \notin CacheKeysOf(cache')
                      /\ cache' = SubSeq(cache, 1, i - 1)
                                    \o SubSeq(cache, i + 1, Len(cache))
                      /\ cacheObs'.isNull
                 ELSE cache' = cache]_vars

\* A get of the watched key, ttl + 1 ms after it was written, found it
\* expired and removed it; the other entry of the cache is still there.
C33_Witness ==
  /\ cacheObs.op = "get"
  /\ cacheObs.key = WatchedKey
  /\ cacheObs.isNull
  /\ cacheHist.live
  /\ cacheHist.missAfter
  /\ WatchedKey \notin CacheKeysOf(cache)
  /\ SearchCache_size(cache) = 1

(***************************************************************************)
(* C35 as stated: set(k, v) on a key that is present replaces the value    *)
(* and the timestamp of that key alone: the entry of every other key stays *)
(* in the cache as it is, also when the cache holds maxSize entries.       *)
(***************************************************************************)
C35_OverwriteKeepsOthers ==
  [][\A k \in CacheKeys, v \in CacheValues :
       (CacheSetOp(k, v) /\ k \in CacheKeysOf(cache))
         => /\ \E i \in 1..Len(cache') :
                 cache'[i] = [key |-> k, timestamp |-> now, results |-> v]
            /\ \A m \in 1..Len(cache) :
                 cache[m].key # k => \E i \in 1..Len(cache') : cache'[i] = cache[m]]_vars

(***************************************************************************)
(* Two calls of searchComments that may overlap.  Between the read of the  *)
(* cache (lines 317-321) and the write (lines 465-474) a call awaits its   *)
(* harvest, whose steps are those of the searches above; here the harvest  *)
(* is one await that ends with some list of comments collected, and the    *)
(* other call may run meanwhile.  The calls share the cache alone.         *)
(*   runs.r[q]   pc "idle" (not called yet), "harvest" (it missed the      *)
(*               cache and awaits) or "done"; out is what it returned;     *)
(*               stored and T are the list it wrote and the time of it     *)
(*   runs.ended  the calls that have returned, in order                    *)
(*   runs.overlap  a call has read the cache while the other, of the same  *)
(*               key, awaited its harvest                                  *)
(***************************************************************************)
OverlapMaxNow == 3

Run(params, page) ==
  [pc |-> "idle", params |-> params, page |-> page, cacheKey |-> "",
   out |-> [kind |-> "none", result |-> <<>>], stored |-> <<>>, T |-> 0]

\* The requests of the calls: the first two have the same key.
OverlapRequests ==
  {Run(Params("rust", "keyword", "relevance", 0, 1), 1),
   Run(Params("Rust", "keyword", "relevance", 0, 1), 1),
   Run(Params("rust", "keyword", "relevance", 0, 1), 2)}

\* What a harvest may have collected.
OverlapHarvests ==
  {<<>>,
   <<Comment("h1", "ann", "rust", "programming", 5, 0, 0)>>,
   <<Comment("h1", "ann", "rust", "programming", 5, 0, 0),
     Comment("h2", "bob", "Rust and rust", "rust", 9, 0, 1)>>}

OverlapInit ==
  /\ now = 0
  /\ cache = <<>>
  /\ cacheObs = NoObs
  /\ cacheHist = NoHist
  /\ accessToken = Null
  /\ tokenExpiration = 0
  /\ tokenRetryCount = 0
  /\ tokenHist = NoTokenHist
  /\ api = <<>>
  /\ exIn = NoExtractIn
  /\ exOut = NoExtractOut
  /\ search = NoSearch
  /\ searchHist = NoSearchHist
  /\ \E a \in OverlapRequests, b \in OverlapRequests :
       runs = [r |-> <<a, b>>, ended |-> <<>>, overlap |-> FALSE]
  /\ rankIn = NoRankIn
  /\ rankOut = NoRankOut

\* Lines 317-321 for a call whose key is cacheKey and whose read of the
\* cache gave cachedResults: the cached list is returned, or the harvest
\* begins.
RunAfterGet(q, cacheKey, cachedResults) ==
  /\ cache' = cachedResults.cache
  /\ runs' =
       [runs EXCEPT
          !.r[q].pc = IF cachedResults.isNull THEN "harvest" ELSE "done",
          !.r[q].cacheKey = cacheKey,
          !.r[q].out = IF cachedResults.isNull THEN @
                       ELSE [kind |-> "hit", result |-> cachedResults.results],
          !.ended = IF cachedResults.isNull THEN @ ELSE Append(@, q),
          !.overlap = @ \/ \E p \in DOMAIN runs.r :
                             /\ p # q
                             /\ runs.r[p].pc = "harvest"
                             /\ runs.r[p].cacheKey = cacheKey]

\* searchComments(params, page) is called.
RunStart(q) ==
  /\ runs.r[q].pc = "idle"
  /\ RunAfterGet(q, getCacheKey(runs.r[q].params, runs.r[q].page),
                 SearchCache_get(cache, getCacheKey(runs.r[q].params, runs.r[q].page), now))
  /\ UNCHANGED <<now, cacheObs, cacheHist, tokenVars, tokenHist, api, exVars,
                 search, searchHist, rankVars>>

\* The list is stored only if the key has no entry
RunFinishWith_KeepFirst(q, processedComments) ==
  /\ cache' = IF CacheIndex(cache, runs.r[q].cacheKey) # 0 THEN cache
              ELSE SearchCache_set(cache, runs.r[q].cacheKey, processedComments, now)
  /\ runs' = [runs EXCEPT
                !.r[q].pc = "done",
                !.r[q].out = [kind |-> "miss",
                              result |-> SliceTo(processedComments,
                                                 runs.r[q].params.limit)],
                !.r[q].stored = processedComments,
                !.r[q].T = now,
                !.ended = Append(@, q)]

\* Lines 471-474: the list is stored in the cache and its first limit
\* entries are returned.
RunFinishWith(q, processedComments) ==
  /\ cache' = SearchCache_set(cache, runs.r[q].cacheKey, processedComments, now)
  /\ runs' = [runs EXCEPT
                !.r[q].pc = "done",
                !.r[q].out = [kind |-> "miss",
                              result |-> SliceTo(processedComments,
                                                 runs.r[q].params.limit)],
                !.r[q].stored = processedComments,
                !.r[q].T = now,
                !.ended = Append(@, q)]

\* The harvest of call q is over with allComments collected (lines 465-474).
RunFinish(q, allComments) ==
  /\ runs.r[q].pc = "harvest"
  /\ RunFinishWith(q,
       IF Len(allComments) > 0
         THEN processCommentsWithSearchTerms(allComments,
                SearchTermsOf(runs.r[q].params.query), runs.r[q].params.filterType,
                runs.r[q].params.query, runs.r[q].params.sortBy,
                runs.r[q].params.minUpvotes, now)
         ELSE mockComments)
  /\ UNCHANGED <<now, cacheObs, cacheHist, tokenVars, tokenHist, api, exVars,
                 search, searchHist, rankVars>>

OverlapNext ==
  \/ \E q \in 1..2 : RunStart(q)
  \/ \E q \in 1..2, allComments \in OverlapHarvests : RunFinish(q, allComments)
  \/ Tick(1, OverlapMaxNow)

OverlapSpec == OverlapInit /\ [][OverlapNext]_vars

\* The entries of the cache with key k.
EntriesOf(k) == {i \in 1..Len(cache) : cache[i].key = k}

(***************************************************************************)
(* C34: two searches with the same cache key, the second of which starts   *)
(* while the first awaits its harvest, both miss the cache and both        *)
(* harvest; when both have returned the cache holds exactly one entry of   *)
(* that key, whose list and timestamp are those written by the search that *)
(* returned last.                                                          *)
(***************************************************************************)
C34_LastWriterWins ==
  runs.overlap =>
    /\ \A q \in 1..2 : runs.r[q].pc \in {"harvest", "done"}
    /\ \A q \in 1..2 : runs.r[q].out.kind # "hit"
    /\ runs.r[1].cacheKey = runs.r[2].cacheKey
    /\ Len(runs.ended) = 2
         => /\ Cardinality(EntriesOf(runs.r[1].cacheKey)) = 1
            /\ \A i \in EntriesOf(runs.r[1].cacheKey) :
                 /\ cache[i].results = runs.r[runs.ended[2]].stored
                 /\ cache[i].timestamp = runs.r[runs.ended[2]].T

\* Both calls, "rust" and "Rust", missed and harvested; the first to return
\* wrote two comments at time 1, the second the fallback comments at time
\* 3, which is what the cache holds.
C34_Witness ==
  /\ runs.overlap
  /\ Len(runs.ended) = 2
  /\ runs.r[1].params.query # runs.r[2].params.query
  /\ Len(runs.r[runs.ended[1]].stored) = 2
  /\ runs.r[runs.ended[1]].T = 1
  /\ runs.r[runs.ended[2]].stored = mockComments
  /\ Len(cache) = 1
  /\ cache[1].results = mockComments
  /\ cache[1].timestamp = 3

(***************************************************************************)
(* C36 as stated: the fallback comments are never stored as a cache entry, *)
(* so a search is never served them from the cache: a search that returns  *)
(* the fallback comments leaves the cache as it was, and an identical      *)
(* search after it harvests afresh.                                        *)
(***************************************************************************)
C36_FallbackNotCached ==
  /\ \A i \in 1..Len(cache) : cache[i].results # mockComments
  /\ search.out.kind = "hit" => search.out.result # mockComments

\* The node is a comment that extractComments skips.
SkippedComment(node) == IsCommentNode(node) /\ IsSkipped(node)

(***************************************************************************)
(* C38: extractComments emits no descendant of a comment node that it      *)
(* skips (body "[deleted]" or "[removed]", or author "[deleted]"): the     *)
(* replies below such a node are not walked.  The replies of a node of     *)
(* another kind are walked: when extractComments returns, a comment of     *)
(* depth at most 10 that is not skipped, below nodes that are comments not *)
(* skipped or nodes of another kind, is emitted.  (In a reply chain the    *)
(* nodes above node i are the nodes 1 to i - 1.)                           *)
(***************************************************************************)
C38_SkippedSubtree ==
  exOut.done =>
    LET nodes == exIn.data.nodes
    IN /\ \A i \in DOMAIN nodes :
            (\E j \in 1..(i - 1) : SkippedComment(nodes[j]))
              => nodes[i].id \notin IdsOf(exOut.comments)
       /\ \A i \in DOMAIN nodes :
            (/\ ~exOut.threw
             /\ i - 1 <= 10
             /\ IsCommentNode(nodes[i]) /\ ~IsSkipped(nodes[i])
             /\ \A j \in 1..(i - 1) :
                  /\ nodes[j].hasData
                  /\ nodes[j].kind # "t1" \/ ~IsSkipped(nodes[j]))
              => nodes[i].id \in IdsOf(exOut.comments)

\* A chain of five comments whose third has the body "[removed]" was
\* extracted: the first two came out, the fourth and the fifth did not.
C38_Witness ==
  /\ exOut.done
  /\ ChainLen(exIn.data) = 5
  /\ exIn.data.nodes[3].body = "[removed]"
  /\ IdsOf(exOut.comments) = {"n0", "n1"}

(***************************************************************************)
(* The return of a search.  The timer of the race may fire at any time of  *)
(* the race.  The timers of the search fire, its direct comment search     *)
(* settles (every call it makes is bounded by the axios timeout and by the *)
(* three attempts), and a call that has settled resumes its caller; the    *)
(* requests and the delays of the subreddit tasks may hang for ever.       *)
(*                                                                         *)
(* The resumption of the caller of a settled call is the only step there   *)
(* is while a settled call waits, and it ends the wait of that call: its   *)
(* weak fairness is that the state is quiescent again and again.           *)
(***************************************************************************)
SearchLiveInit == SearchInit /\ search.base.world.timer

\* One step of a call of the search itself: the direct comment search.
MainCallStep == MainTask \in DOMAIN api /\ SearchCallStep(MainTask)

SearchLiveNext ==
  \/ \E q \in QueryVariants(search.base.params.query) :
       \E picks \in PickChoices(SearchTermsOf(q)) : SearchStart(q, picks)
  \/ \E t \in DOMAIN api : SearchCallStep(t)
  \/ \E s \in 1..Len(search.subs) : SubListingReturn(s)
  \/ \E s \in 1..Len(search.subs), j \in 1..chunkSize : FetchReturn(s, j)
  \/ \E s \in 1..Len(search.subs) : DelayDone(s)
  \/ TimerFire
  \/ MainSuppReturn

SearchLiveSpec ==
  /\ SearchLiveInit /\ [][SearchLiveNext]_vars
  /\ SF_vars(TimerFire)
  /\ SF_vars(MainCallStep)
  /\ []<>Quiescent

(***************************************************************************)
(* C37: a search that awaits, the race or its direct comment search,       *)
(* eventually returns to its caller, although requests of its subreddit    *)
(* tasks may never settle; and when the timer fires the search no longer   *)
(* awaits the race.                                                        *)
(***************************************************************************)
C37_SearchReturns ==
  /\ (search.pc # "idle") ~> (search.pc = "idle")
  /\ [][TimerFire => search'.pc # "racing"]_vars

\* A search has returned what it harvested after the timer had ended the
\* race, while a request of a subreddit task has not settled.
C37_Witness ==
  /\ search.pc = "idle"
  /\ search.out.kind = "miss"
  /\ \E t \in DOMAIN api : t # MainTask /\ Pending(t)
  /\ \E s \in 1..Len(search.subs) : search.subs[s].pc # "done"

=============================================================================
